---- MODULE Spec2Model ----
(***************************************************************************)
(* Position lifecycle of the arbitrage engine: the monitor command's loop  *)
(* (monitorOpportunities, then executeOpportunity for every Opportunity),  *)
(* and the PositionSupervisor timer chains that manageOpenPositions        *)
(* starts (checkPositions / tryConvergenceForPosition).                    *)
(*                                                                         *)
(* Every `await` of the source is a scheduling point of the Node event     *)
(* loop, so each action below is the code between two awaits; a venue or   *)
(* store call and the synchronous code that follows its result are one     *)
(* step.  Store writes (TypeORM save) are taken to succeed.                *)
(*                                                                         *)
(* Units: prices in whole USDT, notionals in milli-USDT, base quantities   *)
(* in milli-units of the base currency, profits in micro-USDT.  With these *)
(* units x * (1 - 2*feeRate) is x * 998 exactly.                           *)
(***************************************************************************)
EXTENDS Integers, Sequences, FiniteSets, TLC

\* ---------------------------------------------------------------- bounds
\* Calls of monitorOpportunities by the monitor command's loop (each call
\* starts one checkPositions timer chain).
MaxCalls == 1
\* checkPositions cycles of one timer chain.
MaxCycles == 2
\* Clock ticks (one tick is one stopLossTimeout unit of wall-clock time).
MaxTime == 2

\* ------------------------------------------------------- program constants
\* worker.ts:189  const tradeAmount = 5 (USDT), here in milli-USDT
ExecTradeAmount == 5000
\* worker.ts:192 / 318  Math.max(.., 3): minimum order notional, milli-USDT
MinNotional == 3000
\* worker.ts:201  stopLossPrice = buyPrice * (1 - 0.05): percent kept
StopLossKeepPercent == 95
\* cli.ts:67 default of --convergence-range, USDT
ConvergenceRange == 5
\* feeRate = 0.001 on two legs: 1 + 2*feeRate and 1 - 2*feeRate, per mille
FeeUp == 1002
FeeDown == 998

\* JS Infinity (a division by a zero price)
Infinity == 1000000000

\* The selections of registered exchanges (--exchanges) a monitor run can
\* be started with.  An instance id that includes "gate" is sized in
\* quote-currency notional.
Selections ==
  { << [name |-> "gate", type |-> "spot"], [name |-> "bybit", type |-> "futures"] >>,
    << [name |-> "binance", type |-> "spot"], [name |-> "bybit", type |-> "futures"] >> }

Symbol == "BTC/USDT"

Range(s) == { s[i] : i \in 1..Len(s) }
Max(a, b) == IF a >= b THEN a ELSE b
Abs(a) == IF a >= 0 THEN a ELSE 0 - a
\* JS number division on the fixed-point values of the model
Div(a, b) == IF b = 0 THEN Infinity ELSE a \div b
IsGate(name) == name = "gate"

VARIABLES
  exchanges,   \* selectedExchanges of the monitor command
  positions,   \* Position table: sequence, the index is the generated id
  trades,      \* Trade table: sequence, the index is the generated id
  orders,      \* orders submitted to venues so far
  now,         \* wall clock, in ticks
  auto,        \* the monitor command's --auto flag
  calls,       \* calls of monitorOpportunities made so far
  cli,         \* the monitor command's loop: pc, pending Opportunities
  ex,          \* the running executeOpportunity invocation
  sup,         \* the checkPositions timer chains, one per call
  poll,        \* one monitorOpportunities call seen from inside: the
               \* Poller's fetch loops, the PriceCache, the Scorer's loop
  cmd          \* a maintenance command (sync, cancel-all-orders) in progress

vars == << exchanges, positions, trades, orders, now, auto, calls, cli, ex, sup,
           poll, cmd >>

\* worker.ts 89-90, 298
spotExchanges == SelectSeq(exchanges, LAMBDA e : e.type = "spot")
futuresExchanges == SelectSeq(exchanges, LAMBDA e : e.type = "futures")

\* ------------------------------------------------ monitor configuration
\* cli.ts defaults of --min-volume, --min-profit, --max-profit and
\* --trade-amount (profits in micro-USDT, the notional in milli-USDT)
minVolume == 100
minProfit == 1000000
maxProfit == 5000000
tradeAmount == 5000
\* cli.ts default of --timeout (stopLossTimeout), in clock ticks
stopLossTimeout == 1

\* --------------------------------------------------------------- Scorer
\* Market data a poll cycle can see: per venue a ticker (<<>> when the
\* fetch threw) and a top-of-book size (<<>> when fetchOrderBook threw).
TickerChoices(e) ==
  IF e.type = "spot"
    THEN { <<>>, << [price |-> 100, volume |-> 100] >> }
    ELSE { << [price |-> 125, volume |-> 100] >> }
BookChoices == { <<>>, << 0 >>, << 1000 >> }

Names == { exchanges[i].name : i \in 1..Len(exchanges) }
MarketData ==
  { m \in [Names -> [ticker : UNION { TickerChoices(exchanges[i]) : i \in 1..Len(exchanges) },
                     book : BookChoices]] :
      \A i \in 1..Len(exchanges) :
        m[exchanges[i].name].ticker \in TickerChoices(exchanges[i]) }

\* The monitor configuration as monitorOpportunities receives it.
MainConfig ==
  [minVolume |-> minVolume, minProfit |-> minProfit, maxProfit |-> maxProfit,
   tradeAmount |-> tradeAmount]

\* Variant sized gross of fees, as arbitrage.ts does.
ScoreAmount_gross(cfg, spotPrice) == Div(cfg.tradeAmount, spotPrice)

\* worker.ts 109-111: netTradeAmount = tradeAmount / (1 + feeRate * 2) and
\* amount = netTradeAmount / spotPrice (milli-base)
ScoreAmount(cfg, spotPrice) == Div((cfg.tradeAmount * 1000) \div FeeUp, spotPrice)

\* worker.ts 129-130: profitGross - profitGross * feeRate * 2 (micro-USDT)
ProfitNet(spotPrice, futuresPrice, amount) ==
  (futuresPrice - spotPrice) * amount * FeeDown

\* Variant with exclusive volume threshold.
VolumeSkipped_exclusive(cfg, dataSpot, dataFutures) ==
  dataSpot.volume <= cfg.minVolume \/ dataFutures.volume <= cfg.minVolume

\* worker.ts 104: the volume test
VolumeSkipped(cfg, dataSpot, dataFutures) ==
  dataSpot.volume < cfg.minVolume \/ dataFutures.volume < cfg.minVolume

\* worker.ts 123: the depth test on << buyVolume, sellVolume >>
DepthSkipped(book, amount) == book[1] < amount \/ book[2] < amount

\* Variant that also takes equal prices.
Qualifies_nonstrict(cfg, spotPrice, futuresPrice, profitNet) ==
  /\ spotPrice <= futuresPrice
  /\ profitNet >= cfg.minProfit
  /\ profitNet <= cfg.maxProfit

\* worker.ts 128, 131: the arbitrage condition and the profit band
Qualifies(cfg, spotPrice, futuresPrice, profitNet) ==
  /\ spotPrice < futuresPrice
  /\ profitNet >= cfg.minProfit
  /\ profitNet <= cfg.maxProfit

\* worker.ts 132-140: the Opportunity pushed
NewOpportunity(spotEx, futuresEx, symbol, spotPrice, futuresPrice, profitNet) ==
  [type |-> "arbitrage", buyExchange |-> spotEx.name,
   sellExchange |-> futuresEx.name, symbol |-> symbol,
   buyPrice |-> spotPrice, sellPrice |-> futuresPrice, profit |-> profitNet]

\* worker.ts 95-147: the body of the innermost loop for one (spotEx,
\* futuresEx, symbol).  dataSpot and dataFutures are the two cache slots
\* (<<>> when absent); book is << buyVolume, sellVolume >> as read from the
\* two order books, or <<>> when a fetchOrderBook threw.  The result says
\* how the iteration ended, the amount it computed and what it pushed.
Evaluate(cfg, spotEx, futuresEx, symbol, dataSpot, dataFutures, book) ==
  IF dataSpot = <<>> \/ dataFutures = <<>>
    THEN [outcome |-> "nodata", amount |-> 0, ops |-> <<>>]
  ELSE IF VolumeSkipped(cfg, dataSpot[1], dataFutures[1])
    THEN [outcome |-> "volume", amount |-> 0, ops |-> <<>>]
  ELSE
    LET spotPrice == dataSpot[1].price
        futuresPrice == dataFutures[1].price
        amount == ScoreAmount(cfg, spotPrice)
        profitNet == ProfitNet(spotPrice, futuresPrice, amount)
    IN IF book = <<>>
         THEN [outcome |-> "bookError", amount |-> amount, ops |-> <<>>]
       ELSE IF DepthSkipped(book, amount)
         THEN [outcome |-> "depth", amount |-> amount, ops |-> <<>>]
       ELSE IF Qualifies(cfg, spotPrice, futuresPrice, profitNet)
         THEN [outcome |-> "pushed", amount |-> amount,
               ops |-> << NewOpportunity(spotEx, futuresEx, symbol, spotPrice,
                                         futuresPrice, profitNet) >>]
       ELSE [outcome |-> "none", amount |-> amount, ops |-> <<>>]

\* worker.ts 95-147 for the lifecycle's one symbol: the sequence of
\* Opportunities the triple pushes (empty or one arbitrage Opportunity).
ScoreTriple(spotEx, futuresEx, m) ==
  LET spotBook == m[spotEx.name].book
      futuresBook == m[futuresEx.name].book
  IN Evaluate(MainConfig, spotEx, futuresEx, Symbol,
              m[spotEx.name].ticker, m[futuresEx.name].ticker,
              IF spotBook = <<>> \/ futuresBook = <<>> THEN <<>>
              ELSE << spotBook[1], futuresBook[1] >>).ops

\* worker.ts 92-150: the loops over spot venues, futures venues (and the
\* one symbol), in the code's order.
RECURSIVE ScoreFrom(_, _, _)
ScoreFrom(i, j, m) ==
  IF i > Len(spotExchanges) THEN <<>>
  ELSE IF j > Len(futuresExchanges) THEN ScoreFrom(i + 1, 1, m)
  ELSE ScoreTriple(spotExchanges[i], futuresExchanges[j], m) \o ScoreFrom(i, j + 1, m)

Scorer(m) == ScoreFrom(1, 1, m)

\* ---------------------------------------------------------------- state
NoValue == {}
IdleEx == [pc |-> "idle", n |-> 0]
\* In the lifecycle specification a poll cycle is one step (MonitorReturn)
\* and no maintenance command runs.
NoPoll == [pc |-> "off"]
NoCmd == [pc |-> "off"]

Init ==
  /\ exchanges \in Selections
  /\ positions = <<>>
  /\ trades = <<>>
  /\ orders = {}
  /\ now = 0
  /\ auto \in BOOLEAN
  /\ calls = 0
  /\ cli = [pc |-> "call", ops |-> <<>>]
  /\ ex = IdleEx
  /\ sup = <<>>
  /\ poll = NoPoll
  /\ cmd = NoCmd

\* TypeORM repository.save of an entity that has an id: the row takes the
\* entity's column values.
SaveEntity(table, e) == [table EXCEPT ![e.id] = [f \in DOMAIN table[e.id] |-> e[f]]]

\* Trade entity as the code fills it before the order is placed.
NewTrade(symbol, exchange, type, amount, price, by) ==
  [symbol |-> symbol, exchange |-> exchange, type |-> type, amount |-> amount,
   price |-> price, success |-> TRUE, error |-> "", by |-> by]

\* Variant whose catch drops the venue's message.
Settle_noMessage(trade, ok) ==
  IF ok THEN [trade EXCEPT !.success = TRUE]
  ELSE [trade EXCEPT !.success = FALSE]

\* Variant without the catch blocks: the Trade keeps success = true.
Settle_uncaught(trade, ok) == trade

\* The catch blocks: success = false, error = the venue's message.
Settle(trade, ok) ==
  IF ok THEN [trade EXCEPT !.success = TRUE]
  ELSE [trade EXCEPT !.success = FALSE, !.error = "venue error"]

Order(exchange, side, amount, unit, ok, by) ==
  [exchange |-> exchange, side |-> side, amount |-> amount, unit |-> unit,
   ok |-> ok, by |-> by]

\* ------------------------------------------------- the monitor command
\* cli monitor loop: monitorOpportunities(...) is called; it starts
\* manageOpenPositions, whose checkPositions() runs up to its first await.
MonitorCallUpTo(max) ==
  /\ cli.pc = "call"
  /\ calls < max
  /\ calls' = calls + 1
  /\ sup' = Append(sup, [pc |-> "find", cycle |-> 1, queue |-> <<>>])
  /\ cli' = [cli EXCEPT !.pc = "poll"]
  /\ UNCHANGED << poll, cmd, exchanges, positions, trades, orders, now, auto, ex >>

MonitorCall == MonitorCallUpTo(MaxCalls)

\* monitorLoop: poll cycles repeat until one yields Opportunities, which
\* monitorOpportunities then returns to the monitor command.
MonitorReturn ==
  /\ cli.pc = "poll"
  /\ \E m \in MarketData :
       /\ Scorer(m) # <<>>
       /\ cli' = [pc |-> "loop", ops |-> Scorer(m)]
  /\ UNCHANGED << poll, cmd, exchanges, positions, trades, orders, now, auto, calls, ex, sup >>

\* Variant that executes whatever the flag says.
Executes_always(flag) == TRUE

\* part_001 376: if (options.auto)
Executes(flag) == flag

\* for (const op of opportunities): without --auto the op is only logged.
LogOnly ==
  /\ cli.pc = "loop"
  /\ cli.ops # <<>>
  /\ ~Executes(auto)
  /\ cli' = [cli EXCEPT !.ops = Tail(cli.ops)]
  /\ UNCHANGED << poll, cmd, exchanges, positions, trades, orders, now, auto, calls, ex, sup >>

\* after the for loop: the 5 s sleep, then the next monitorOpportunities.
CliSleep ==
  /\ cli.pc = "loop"
  /\ cli.ops = <<>>
  /\ cli' = [cli EXCEPT !.pc = "call"]
  /\ UNCHANGED << poll, cmd, exchanges, positions, trades, orders, now, auto, calls, ex, sup >>

Tick ==
  /\ now < MaxTime
  /\ now' = now + 1
  /\ UNCHANGED << poll, cmd, exchanges, positions, trades, orders, auto, calls, cli, ex, sup >>

\* --------------------------------------------------- executeOpportunity
\* `by` tags (on Trades and orders) name the invocation or the Supervisor
\* handling that produced them; they are history, not program data.
ByExec(n) == [k |-> "exec", c |-> 0, n |-> n, p |-> 0]
BySup(c, cycle, id) == [k |-> "sup", c |-> c, n |-> cycle, p |-> id]

\* worker.ts 189-193
netTradeAmount == (ExecTradeAmount * 1000) \div FeeUp
amountBuy == Max(netTradeAmount, MinNotional)
amountSell(op) == Div(amountBuy, op.buyPrice)

\* Variant of the Position entity that is inserted already closed.
NewPosition_closed(op, n) ==
  [symbol |-> op.symbol, exchange |-> op.buyExchange, amount |-> amountSell(op),
   buyPrice |-> op.buyPrice,
   stopLossPrice |-> (op.buyPrice * StopLossKeepPercent) \div 100,
   sellPrice |-> NoValue, profit |-> NoValue,
   timestamp |-> now, closed |-> TRUE, inv |-> n]

\* worker.ts 196-203: the Position entity before its first save
NewPosition(op, n) ==
  [symbol |-> op.symbol, exchange |-> op.buyExchange, amount |-> amountSell(op),
   buyPrice |-> op.buyPrice,
   stopLossPrice |-> (op.buyPrice * StopLossKeepPercent) \div 100,
   sellPrice |-> NoValue, profit |-> NoValue,
   timestamp |-> now, closed |-> FALSE, inv |-> n]

\* Variant as in arbitrage.ts 263: the sell leg closes the Position.
SoldPosition_closing(position, op) ==
  [position EXCEPT !.closed = TRUE, !.sellPrice = {op.sellPrice},
                   !.profit = {op.profit}]

\* worker.ts 246-248: the entity after a successful sell leg
SoldPosition(position, op) ==
  [position EXCEPT !.closed = FALSE, !.sellPrice = {op.sellPrice},
                   !.profit = {op.profit}]

\* Variant that sizes every buy in base quantity.
BuyOrderAmount_base(op) == [amount |-> amountSell(op), unit |-> "base"]

\* worker.ts 216-221: what the buy order is sized in
BuyOrderAmount(op) ==
  IF IsGate(op.buyExchange) THEN [amount |-> amountBuy, unit |-> "quote"]
  ELSE [amount |-> amountSell(op), unit |-> "base"]

\* Variant as in arbitrage.ts 236-256: no return after a failed buy.
AfterBuyTrade_noReturn(success) == "sell"

\* worker.ts 224-231: where the code goes after the buy leg's Trade is saved
AfterBuyTrade(success) == IF success THEN "sell" ELSE "done"

\* Variant whose catch returns without saving the failed sell Trade.
AfterSell_drop(ok) == IF ok THEN "savePosition" ELSE "done"

\* worker.ts 241-255: after the sell order: save the Position (success) or
\* go on to save the failed sell Trade
AfterSell(ok) == IF ok THEN "savePosition" ELSE "saveSellTrade"

\* worker.ts 178-204: venue lookup, sizing, the Position entity and its
\* insert (the id is generated by the store).
ExecSavePosition ==
  /\ cli.pc = "loop"
  /\ cli.ops # <<>>
  /\ Executes(auto)
  /\ ex.pc = "idle"
  /\ LET op == Head(cli.ops)
         n == ex.n + 1
         buyEx == { i \in 1..Len(exchanges) :
                      exchanges[i].name = op.buyExchange /\ exchanges[i].type = "spot" }
         sellEx == { i \in 1..Len(exchanges) :
                      exchanges[i].name = op.sellExchange /\ exchanges[i].type = "futures" }
         position == NewPosition(op, n)
     IN /\ buyEx # {} /\ sellEx # {}
        /\ positions' = Append(positions, position)
        /\ ex' = [pc |-> "buy", n |-> n, op |-> op,
                  position |-> [f \in DOMAIN position \cup {"id"} |->
                                  IF f = "id" THEN Len(positions) + 1 ELSE position[f]],
                  trade |-> NewTrade(op.symbol, op.buyExchange, "buy", amountBuy,
                                     op.buyPrice, ByExec(n))]
  /\ UNCHANGED << poll, cmd, exchanges, trades, orders, now, auto, calls, cli, sup >>

\* worker.ts 214-230: createMarketBuyOrder on the spot venue and its catch
ExecBuy ==
  /\ ex.pc = "buy"
  /\ \E ok \in BOOLEAN :
       LET size == BuyOrderAmount(ex.op)
       IN /\ orders' = orders \cup {Order(ex.op.buyExchange, "buy", size.amount,
                                         size.unit, ok, ByExec(ex.n))}
          /\ ex' = [ex EXCEPT !.pc = "saveBuyTrade", !.trade = Settle(ex.trade, ok)]
  /\ UNCHANGED << poll, cmd, exchanges, positions, trades, now, auto, calls, cli, sup >>

\* worker.ts 228-239: tradeRepository.save(buyTrade); return after a failed
\* buy, else build the sell Trade
ExecSaveBuyTrade ==
  /\ ex.pc = "saveBuyTrade"
  /\ trades' = Append(trades, ex.trade)
  /\ ex' = [ex EXCEPT !.pc = AfterBuyTrade(ex.trade.success),
                      !.trade = IF ex.trade.success
                                  THEN NewTrade(ex.op.symbol, ex.op.sellExchange, "sell",
                                                amountSell(ex.op), ex.op.sellPrice,
                                                ByExec(ex.n))
                                  ELSE ex.trade]
  /\ UNCHANGED << poll, cmd, exchanges, positions, orders, now, auto, calls, cli, sup >>

\* worker.ts 241-254: createMarketSellOrder on the futures venue
ExecSell ==
  /\ ex.pc = "sell"
  /\ \E ok \in BOOLEAN :
       /\ orders' = orders \cup {Order(ex.op.sellExchange, "sell", amountSell(ex.op),
                                         "base", ok, ByExec(ex.n))}
       /\ ex' = [ex EXCEPT !.pc = AfterSell(ok),
                           !.trade = Settle(ex.trade, ok),
                           !.position = IF ok THEN SoldPosition(ex.position, ex.op)
                                        ELSE ex.position]
  /\ UNCHANGED << poll, cmd, exchanges, positions, trades, now, auto, calls, cli, sup >>

\* worker.ts 249: positionRepository.save(position) after the sell
ExecSavePositionAgain ==
  /\ ex.pc = "savePosition"
  /\ positions' = SaveEntity(positions, ex.position)
  /\ ex' = [ex EXCEPT !.pc = "saveSellTrade"]
  /\ UNCHANGED << poll, cmd, exchanges, trades, orders, now, auto, calls, cli, sup >>

\* worker.ts 255: tradeRepository.save(sellTrade)
ExecSaveSellTrade ==
  /\ ex.pc = "saveSellTrade"
  /\ trades' = Append(trades, ex.trade)
  /\ ex' = [ex EXCEPT !.pc = "done"]
  /\ UNCHANGED << poll, cmd, exchanges, positions, orders, now, auto, calls, cli, sup >>

\* executeOpportunity has returned: the monitor loop takes the next op
ExecReturn ==
  /\ ex.pc = "done"
  /\ cli' = [cli EXCEPT !.ops = Tail(cli.ops)]
  /\ ex' = [pc |-> "idle", n |-> ex.n]
  /\ UNCHANGED << poll, cmd, exchanges, positions, trades, orders, now, auto, calls, sup >>

\* --------------------------------------------------- PositionSupervisor
\* cli.ts default of --stop-loss, percent
stopLossPercent == 5

\* What fetchTicker(...).then(t => t.last ?? 0) can give: <<>> when the
\* call rejects, else the price (0 for a missing last).
SpotTickerResults == { <<>>, << 0 >>, << 95 >>, << 96 >> }
FuturesTickerResults == { <<>>, << 101 >>, << 102 >> }

\* positionRepository.find({ where: { closed: false } }): the loaded
\* entities (copies of the rows, with their ids), in id order.
RECURSIVE OpenFrom(_)
OpenFrom(i) ==
  IF i > Len(positions) THEN <<>>
  ELSE (IF positions[i].closed THEN <<>>
        ELSE << [f \in DOMAIN positions[i] \cup {"id"} |->
                   IF f = "id" THEN i ELSE positions[i][f]] >>)
       \o OpenFrom(i + 1)
openPositions == OpenFrom(1)

\* worker.ts 297-304: the early returns of tryConvergenceForPosition
Skipped(pos) ==
  LET buyEx == { i \in 1..Len(exchanges) :
                   exchanges[i].name = pos.exchange /\ exchanges[i].type = "spot" }
  IN buyEx = {} \/ pos.closed \/ Len(futuresExchanges) = 0

\* worker.ts 310: pos.stopLossPrice || pos.buyPrice * (1 - stopLossPercent / 100)
StopLossThreshold(pos, percent) ==
  IF pos.stopLossPrice # 0 THEN pos.stopLossPrice
  ELSE (pos.buyPrice * (100 - percent)) \div 100

\* Variant with a strict price comparison.
stopLossTriggered_strict(pos, spotPrice, t) ==
  \/ spotPrice < StopLossThreshold(pos, stopLossPercent)
  \/ t - pos.timestamp > stopLossTimeout

\* worker.ts 309-312
stopLossTriggered(pos, spotPrice, t) ==
  \/ spotPrice <= StopLossThreshold(pos, stopLossPercent)
  \/ t - pos.timestamp > stopLossTimeout
convergenceDetected(spotPrice, futuresPrice) ==
  Abs(spotPrice - futuresPrice) <= ConvergenceRange
Triggered(pos, spotPrice, futuresPrice, t) ==
  convergenceDetected(spotPrice, futuresPrice) \/ stopLossTriggered(pos, spotPrice, t)

\* worker.ts 315-318, 324, 330-335: the spot unwind's recorded notional
\* and the quantity submitted
adjustedSellCost(pos, spotPrice) == Max(pos.amount * spotPrice, MinNotional)
SpotSellAmount(pos, spotPrice) ==
  IF IsGate(pos.exchange) THEN Div(adjustedSellCost(pos, spotPrice), spotPrice)
  ELSE pos.amount

\* Variant whose profit leaves the fees out.
ClosedPosition_gross(pos, spotPrice) ==
  [pos EXCEPT !.closed = TRUE, !.sellPrice = {spotPrice},
              !.profit = {(spotPrice - pos.buyPrice) * pos.amount * 1000}]

\* worker.ts 359-361: the entity after both unwind legs succeeded
ClosedPosition(pos, spotPrice) ==
  [pos EXCEPT !.closed = TRUE, !.sellPrice = {spotPrice},
              !.profit = {(spotPrice - pos.buyPrice) * pos.amount * FeeDown}]

\* Variant without the return after a failed spot sell.
AfterSpotTrade_noReturn(success) == "futuresBuy"

\* worker.ts 338-345: after the spot Trade is saved
AfterSpotTrade(success) == IF success THEN "futuresBuy" ELSE "return"

\* Variant that closes the Position whatever the futures buy did.
AfterFuturesBuy_always(ok) == "savePosition"

\* worker.ts 355-367: after the futures buy order: close and save the
\* Position (success) or go on to save the failed Trade
AfterFuturesBuy(ok) == IF ok THEN "savePosition" ELSE "saveFuturesTrade"

\* worker.ts 276-280: the for loop takes the next loaded Position, runs
\* tryConvergenceForPosition up to its first await (or through an early
\* return), and after the last one arms the 60 s timer.
RECURSIVE Advance(_, _)
Advance(cycle, queue) ==
  IF queue = <<>> THEN [pc |-> "timer", cycle |-> cycle, queue |-> <<>>]
  ELSE IF Skipped(Head(queue)) THEN Advance(cycle, Tail(queue))
  ELSE [pc |-> "spotTicker", cycle |-> cycle, queue |-> Tail(queue), pos |-> Head(queue)]

\* worker.ts 273: the find resolves
SupFind(c) ==
  /\ sup[c].pc = "find"
  /\ sup' = [sup EXCEPT ![c] = Advance(sup[c].cycle, openPositions)]
  /\ UNCHANGED << poll, cmd, exchanges, positions, trades, orders, now, auto, calls, cli, ex >>

\* worker.ts 306: the spot re-quote; a rejection is not caught anywhere,
\* so checkPositions rejects and its setTimeout is never reached.
SupSpotTicker(c) ==
  /\ sup[c].pc = "spotTicker"
  /\ \E r \in SpotTickerResults :
       sup' = [sup EXCEPT ![c] =
                 IF r = <<>> THEN [pc |-> "dead", cycle |-> sup[c].cycle, queue |-> <<>>]
                 ELSE [pc |-> "futuresTicker", cycle |-> sup[c].cycle,
                       queue |-> sup[c].queue, pos |-> sup[c].pos, spotPrice |-> r[1]]]
  /\ UNCHANGED << poll, cmd, exchanges, positions, trades, orders, now, auto, calls, cli, ex >>

\* worker.ts 307-326, 376: the futures re-quote, the trigger decision and
\* either the spot sell Trade entity or the "Aguardando convergencia" log
\* line (kept as `waited` until the chain's next step).
SupFuturesTicker(c) ==
  /\ sup[c].pc = "futuresTicker"
  /\ \E r \in FuturesTickerResults :
       LET pos == sup[c].pos
           spotPrice == sup[c].spotPrice
           timeElapsed == now - pos.timestamp
       IN sup' = [sup EXCEPT ![c] =
                 IF r = <<>> THEN [pc |-> "dead", cycle |-> sup[c].cycle, queue |-> <<>>]
                 ELSE IF Triggered(pos, spotPrice, r[1], now)
                   THEN [pc |-> "spotSell", cycle |-> sup[c].cycle, queue |-> sup[c].queue,
                         pos |-> pos, spotPrice |-> spotPrice, futuresPrice |-> r[1],
                         timeElapsed |-> timeElapsed,
                         trade |-> NewTrade(pos.symbol, pos.exchange, "sell",
                                            adjustedSellCost(pos, spotPrice), spotPrice,
                                            BySup(c, sup[c].cycle, pos.id))]
                 ELSE Advance(sup[c].cycle, sup[c].queue)
                      @@ [waited |-> [pos |-> pos, spotPrice |-> spotPrice,
                                      futuresPrice |-> r[1],
                                      timeElapsed |-> timeElapsed]]]
  /\ UNCHANGED << poll, cmd, exchanges, positions, trades, orders, now, auto, calls, cli, ex >>

\* worker.ts 328-344: createMarketSellOrder on the spot venue and its catch
SupSpotSell(c) ==
  /\ sup[c].pc = "spotSell"
  /\ \E ok \in BOOLEAN :
       LET ch == sup[c]
       IN /\ orders' = orders \cup {Order(ch.pos.exchange, "sell",
                                            SpotSellAmount(ch.pos, ch.spotPrice), "base",
                                            ok, ch.trade.by)}
          /\ sup' = [sup EXCEPT ![c] = [ch EXCEPT !.pc = "saveSpotTrade",
                                                  !.trade = Settle(ch.trade, ok)]]
  /\ UNCHANGED << poll, cmd, exchanges, positions, trades, now, auto, calls, cli, ex >>

\* worker.ts 342-353: tradeRepository.save(spotSellTrade); return after a
\* failed sell, else build the futures buy Trade
SupSaveSpotTrade(c) ==
  /\ sup[c].pc = "saveSpotTrade"
  /\ trades' = Append(trades, sup[c].trade)
  /\ LET ch == sup[c]
     IN sup' = [sup EXCEPT ![c] =
                  IF AfterSpotTrade(ch.trade.success) = "futuresBuy"
                    THEN [ch EXCEPT !.pc = "futuresBuy",
                                    !.trade = NewTrade(ch.pos.symbol, futuresExchanges[1].name,
                                                       "buy", ch.pos.amount, ch.futuresPrice,
                                                       ch.trade.by)]
                  ELSE Advance(ch.cycle, ch.queue)]
  /\ UNCHANGED << poll, cmd, exchanges, positions, orders, now, auto, calls, cli, ex >>

\* worker.ts 355-367: createMarketBuyOrder on the first futures venue
SupFuturesBuy(c) ==
  /\ sup[c].pc = "futuresBuy"
  /\ \E ok \in BOOLEAN :
       LET ch == sup[c]
       IN /\ orders' = orders \cup {Order(futuresExchanges[1].name, "buy", ch.pos.amount,
                                            "base", ok, ch.trade.by)}
          /\ sup' = [sup EXCEPT ![c] =
                       [ch EXCEPT !.pc = AfterFuturesBuy(ok),
                                  !.trade = Settle(ch.trade, ok),
                                  !.pos = IF AfterFuturesBuy(ok) = "savePosition"
                                            THEN ClosedPosition(ch.pos, ch.spotPrice)
                                          ELSE ch.pos]]
  /\ UNCHANGED << poll, cmd, exchanges, positions, trades, now, auto, calls, cli, ex >>

\* worker.ts 362: positionRepository.save(pos)
SupSavePosition(c) ==
  /\ sup[c].pc = "savePosition"
  /\ positions' = SaveEntity(positions, sup[c].pos)
  /\ sup' = [sup EXCEPT ![c].pc = "saveFuturesTrade"]
  /\ UNCHANGED << poll, cmd, exchanges, trades, orders, now, auto, calls, cli, ex >>

\* worker.ts 368-374: tradeRepository.save(futuresBuyTrade), then the next
\* loaded Position
SupSaveFuturesTrade(c) ==
  /\ sup[c].pc = "saveFuturesTrade"
  /\ trades' = Append(trades, sup[c].trade)
  /\ sup' = [sup EXCEPT ![c] = Advance(sup[c].cycle, sup[c].queue)]
  /\ UNCHANGED << poll, cmd, exchanges, positions, orders, now, auto, calls, cli, ex >>

\* worker.ts 280: the 60 s timer fires checkPositions again
SupTimer(c) ==
  /\ sup[c].pc = "timer"
  /\ sup[c].cycle < MaxCycles
  /\ sup' = [sup EXCEPT ![c] = [pc |-> "find", cycle |-> sup[c].cycle + 1, queue |-> <<>>]]
  /\ UNCHANGED << poll, cmd, exchanges, positions, trades, orders, now, auto, calls, cli, ex >>

Next ==
  \/ MonitorCall
  \/ MonitorReturn
  \/ LogOnly
  \/ CliSleep
  \/ Tick
  \/ ExecSavePosition
  \/ ExecBuy
  \/ ExecSaveBuyTrade
  \/ ExecSell
  \/ ExecSavePositionAgain
  \/ ExecSaveSellTrade
  \/ ExecReturn
  \/ \E c \in DOMAIN sup :
       \/ SupFind(c)
       \/ SupSpotTicker(c)
       \/ SupFuturesTicker(c)
       \/ SupSpotSell(c)
       \/ SupSaveSpotTrade(c)
       \/ SupFuturesBuy(c)
       \/ SupSavePosition(c)
       \/ SupSaveFuturesTrade(c)
       \/ SupTimer(c)

Spec == Init /\ [][Next]_vars

\* ====================================================== Poller and Scorer
\* One monitorOpportunities call seen from inside (worker.ts 51-165): the
\* per-venue fetch loops that Promise.all runs concurrently, the PriceCache
\* `prices` (keyed by venue name, then symbol) and the Scorer's loop over
\* (spot venue, futures venue, symbol), one order-book fetch per triple.

\* Poll cycles followed (the while loop of monitorLoop, over all calls).
MaxPollCycles == 2

\* --symbols
Symbols == << "BTC/USDT", "ETH/USDT" >>

\* Venue selections for these runs.  Exchange.name is the ccxt id and is
\* not unique: one venue can be registered as spot and as futures.
PollSelections ==
  { << [name |-> "gate", type |-> "spot"], [name |-> "bybit", type |-> "futures"] >>,
    << [name |-> "bybit", type |-> "spot"], [name |-> "bybit", type |-> "futures"] >> }

\* Monitor configurations: the CLI defaults; a profit band whose ends are
\* profits that occur; --min-profit 0; --trade-amount 1000.
PollConfigs ==
  { MainConfig,
    [minVolume |-> 100, minProfit |-> 489020, maxProfit |-> 1222550,
     tradeAmount |-> 5000],
    [minVolume |-> 100, minProfit |-> 0, maxProfit |-> 5000000,
     tradeAmount |-> 5000],
    [minVolume |-> 100, minProfit |-> 1000000, maxProfit |-> 100000000,
     tradeAmount |-> 1000000] }

\* What instance.fetchTicker(symbol) can give: <<>> when it throws, else
\* the quote (last ?? 0, baseVolume ?? 0); price 0 is a ticker without
\* last.
PollTickerResults(e) ==
  IF e.type = "spot"
    THEN { <<>>, << [price |-> 100, volume |-> 100] >>,
           << [price |-> 100, volume |-> 99] >>,
           << [price |-> 0, volume |-> 100] >> }
    ELSE { <<>>, << [price |-> 100, volume |-> 100] >>,
           << [price |-> 110, volume |-> 100] >>,
           << [price |-> 125, volume |-> 100] >>,
           << [price |-> 130, volume |-> 100] >> }

\* What the two fetchOrderBook calls of a triple can give: <<>> when one
\* throws, else << bids[0][1] || 0 of the spot book, asks[0][1] || 0 of the
\* futures book >> (milli-base).
PollBookResults ==
  { <<>>, << 48, 10000 >>, << 10000, 48 >>, << 49, 49 >>, << 10000, 10000 >> }

Venues == 1..Len(exchanges)
SymbolIds == 1..Len(Symbols)
EmptyCache == [n \in Names |-> [k \in SymbolIds |-> <<>>]]
\* What each venue answered in this cycle (history, kept for the record):
\* not asked yet, threw, or the quote.
NoResponses == [v \in Venues |-> [k \in SymbolIds |-> [st |-> "none", q |-> <<>>]]]

\* worker.ts 92-94: the triples in the order of the three nested loops
TripleCount == Len(spotExchanges) * Len(futuresExchanges) * Len(Symbols)
TripleAt(idx) ==
  LET z == idx - 1
      k == (z % Len(Symbols)) + 1
      j == ((z \div Len(Symbols)) % Len(futuresExchanges)) + 1
      i == (z \div (Len(Symbols) * Len(futuresExchanges))) + 1
  IN [spotEx |-> spotExchanges[i], futuresEx |-> futuresExchanges[j], k |-> k]

\* worker.ts 51-52, 64-67: a call starts with prices = {} and no
\* Opportunities; a cycle starts with every venue's callback running up to
\* its first fetchTicker, which resets prices[ex.name] = {}.
CycleStart(cfg, cycle) ==
  [pc |-> "fetch", cfg |-> cfg, cycle |-> cycle,
   at |-> [v \in Venues |-> 1], prices |-> EmptyCache, resp |-> NoResponses,
   hung |-> {}, idx |-> 1, ops |-> <<>>, log |-> <<>>]

PollInit ==
  /\ exchanges \in PollSelections
  /\ positions = <<>>
  /\ trades = <<>>
  /\ orders = {}
  /\ now = 0
  /\ auto = FALSE
  /\ calls = 1
  /\ cli = [pc |-> "poll", ops |-> <<>>]
  /\ ex = IdleEx
  /\ sup = <<>>
  /\ cmd = NoCmd
  /\ \E cfg \in PollConfigs : poll = CycleStart(cfg, 1)

\* Variant whose catch leaves the venue's loop.
AfterFetch_abort(k, failed) == IF failed THEN Len(Symbols) + 1 ELSE k + 1

\* worker.ts 79-81: the catch of one symbol's fetch: the loop goes on with
\* the venue's next symbol.
AfterFetch(k, failed) == k + 1

\* worker.ts 68-82: one fetchTicker of venue v resolves or throws; a quote
\* is cached (and its Price row saved), a failure is logged.
PollFetch(v) ==
  /\ poll.pc = "fetch"
  /\ poll.at[v] <= Len(Symbols)
  /\ v \notin poll.hung
  /\ \E r \in PollTickerResults(exchanges[v]) :
       LET k == poll.at[v]
           name == exchanges[v].name
       IN poll' = [poll EXCEPT
                     !.at[v] = AfterFetch(k, r = <<>>),
                     !.resp[v][k] = [st |-> IF r = <<>> THEN "failed" ELSE "ok",
                                     q |-> r],
                     !.prices[name][k] = IF r = <<>> THEN @ ELSE r]
  /\ UNCHANGED << cmd, exchanges, positions, trades, orders, now, auto, calls, cli,
                  ex, sup >>

\* worker.ts 64, 85: Promise.all resolves when every venue's loop is done
PollFetched ==
  /\ poll.pc = "fetch"
  /\ \A v \in Venues : poll.at[v] > Len(Symbols)
  /\ poll' = [poll EXCEPT !.pc = "score"]
  /\ UNCHANGED << cmd, exchanges, positions, trades, orders, now, auto, calls, cli,
                  ex, sup >>

\* Variant in which a depth skip or an order-book error ends the loops.
AfterTriple_abort(idx, outcome) ==
  IF outcome \in {"bookError", "depth"} THEN TripleCount + 1 ELSE idx + 1

\* worker.ts 117-147: where the triple loop goes after an iteration,
\* however it ended
AfterTriple(idx, outcome) == idx + 1

\* worker.ts 95-147: one iteration of the triple loop
PollScore ==
  /\ poll.pc = "score"
  /\ poll.idx <= TripleCount
  /\ \E book \in PollBookResults :
       LET t == TripleAt(poll.idx)
           r == Evaluate(poll.cfg, t.spotEx, t.futuresEx, Symbols[t.k],
                         poll.prices[t.spotEx.name][t.k],
                         poll.prices[t.futuresEx.name][t.k], book)
       IN poll' = [poll EXCEPT
                     !.idx = AfterTriple(poll.idx, r.outcome),
                     !.ops = @ \o r.ops,
                     !.log = Append(@, [idx |-> poll.idx, outcome |-> r.outcome,
                                        amount |-> r.amount,
                                        book |-> IF r.outcome \in {"nodata", "volume"}
                                                   THEN <<>> ELSE book])]
  /\ UNCHANGED << cmd, exchanges, positions, trades, orders, now, auto, calls, cli,
                  ex, sup >>

\* worker.ts 152-160: after the loops: return the Opportunities, or sleep
PollScored ==
  /\ poll.pc = "score"
  /\ poll.idx > TripleCount
  /\ poll' = [poll EXCEPT !.pc = IF poll.ops # <<>> THEN "returned" ELSE "sleep"]
  /\ UNCHANGED << cmd, exchanges, positions, trades, orders, now, auto, calls, cli,
                  ex, sup >>

\* worker.ts 160, 63: the 5 s sleep is over, the next cycle starts
PollSleep ==
  /\ poll.pc = "sleep"
  /\ poll.cycle < MaxPollCycles
  /\ poll' = CycleStart(poll.cfg, poll.cycle + 1)
  /\ UNCHANGED << cmd, exchanges, positions, trades, orders, now, auto, calls, cli,
                  ex, sup >>

\* cli.ts 126-147: the monitor command has gone through the returned
\* Opportunities and calls monitorOpportunities again
PollCallAgain ==
  /\ poll.pc = "returned"
  /\ poll.cycle < MaxPollCycles
  /\ poll' = CycleStart(poll.cfg, poll.cycle + 1)
  /\ UNCHANGED << cmd, exchanges, positions, trades, orders, now, auto, calls, cli,
                  ex, sup >>

PollNext ==
  \/ \E v \in Venues : PollFetch(v)
  \/ PollFetched
  \/ PollScore
  \/ PollScored
  \/ PollSleep
  \/ PollCallAgain

PollSpec == PollInit /\ [][PollNext]_vars

\* ------------------------------------------- a quote call that hangs
\* The same cycles when a venue's fetchTicker may never settle (the code
\* sets no timeout on it).  The event loop runs every continuation whose
\* promise has settled, hence the weak fairness on each step; a call that
\* hangs gets none.

HangInit ==
  /\ exchanges \in PollSelections
  /\ positions = <<>>
  /\ trades = <<>>
  /\ orders = {}
  /\ now = 0
  /\ auto = FALSE
  /\ calls = 1
  /\ cli = [pc |-> "poll", ops |-> <<>>]
  /\ ex = IdleEx
  /\ sup = <<>>
  /\ cmd = NoCmd
  /\ poll = CycleStart(MainConfig, 1)

\* worker.ts 69: the pending fetchTicker of venue v never resolves nor
\* rejects
PollHang(v) ==
  /\ poll.pc = "fetch"
  /\ poll.at[v] <= Len(Symbols)
  /\ poll.hung = {}
  /\ poll' = [poll EXCEPT !.hung = {v}]
  /\ UNCHANGED << cmd, exchanges, positions, trades, orders, now, auto, calls, cli,
                  ex, sup >>

HangNext ==
  \/ PollNext
  \/ \E v \in Venues : PollHang(v)

HangSpec ==
  /\ HangInit
  /\ [][HangNext]_vars
  /\ \A v \in 1..2 : WF_vars(PollFetch(v))
  /\ WF_vars(PollFetched)
  /\ WF_vars(PollScore)
  /\ WF_vars(PollScored)
  /\ WF_vars(PollSleep)
  /\ WF_vars(PollCallAgain)

\* ------------------------------------------------- the Scorer, run twice
\* The Scorer applied to a given PriceCache and configuration, and applied
\* again in the next cycle when the Poller has cached the same quotes.

\* What a cache slot can hold after the fetch phase
SlotChoices ==
  { <<>>, << [price |-> 100, volume |-> 100] >>,
    << [price |-> 110, volume |-> 100] >>, << [price |-> 125, volume |-> 100] >> }
ScorerCaches == [Names -> [SymbolIds -> SlotChoices]]

ScorerInit ==
  /\ exchanges \in PollSelections
  /\ positions = <<>>
  /\ trades = <<>>
  /\ orders = {}
  /\ now = 0
  /\ auto = FALSE
  /\ calls = 1
  /\ cli = [pc |-> "poll", ops |-> <<>>]
  /\ ex = IdleEx
  /\ sup = <<>>
  /\ cmd = NoCmd
  /\ \E cfg \in PollConfigs : \E cache \in ScorerCaches :
       poll = [pc |-> "score", cfg |-> cfg, run |-> 1, first |-> <<>>,
               prices |-> cache, idx |-> 1, ops |-> <<>>, log |-> <<>>]

\* worker.ts 52, 63, 88-94: the next run of the triple loops over the same
\* cache contents, starting from no Opportunities; the first run's result
\* is kept for comparison.
ScorerRerun ==
  /\ poll.pc = "score"
  /\ poll.idx > TripleCount
  /\ poll.run = 1
  /\ poll' = [poll EXCEPT !.run = 2, !.first = poll.ops, !.idx = 1,
                          !.ops = <<>>, !.log = <<>>]
  /\ UNCHANGED << cmd, exchanges, positions, trades, orders, now, auto, calls, cli,
                  ex, sup >>

ScorerNext ==
  \/ PollScore
  \/ ScorerRerun

ScorerSpec == ScorerInit /\ [][ScorerNext]_vars

\* ================================================== maintenance commands
\* The sync and cancel-all-orders commands of the CLI, run one after the
\* other on a Trade table that monitor runs have left.  Each is its own
\* process; the Balance and Price tables sync also writes are not part of
\* the state.

\* Commands followed in one behaviour.
MaxCommands == 2

CmdIdle(runs) ==
  [pc |-> "idle", name |-> "", runs |-> runs, venues |-> <<>>,
   open |-> <<>>, loaded |-> <<>>]

BySync(n) == [k |-> "sync", c |-> 0, n |-> n, p |-> 0]

\* Trade tables executeOpportunity can have left for a selection: nothing,
\* a failed buy, a buy and a failed sell, a buy and a sell.
MaintTables(sel) ==
  LET buy == NewTrade(Symbol, sel[1].name, "buy", 4, 100, ByExec(1))
      sell == NewTrade(Symbol, sel[2].name, "sell", 4, 110, ByExec(1))
  IN { <<>>,
       << Settle(buy, FALSE) >>,
       << Settle(buy, TRUE), Settle(sell, FALSE) >>,
       << Settle(buy, TRUE), Settle(sell, TRUE) >> }

MaintInit ==
  /\ exchanges \in Selections
  /\ positions = <<>>
  /\ trades \in MaintTables(exchanges)
  /\ orders = {}
  /\ now = 0
  /\ auto = FALSE
  /\ calls = 0
  /\ cli = [pc |-> "call", ops |-> <<>>]
  /\ ex = IdleEx
  /\ sup = <<>>
  /\ poll = NoPoll
  /\ cmd = CmdIdle(0)

\* Order ids as venues report them (strings), and what parseInt makes of
\* them.
IdStrings == << "1", "2", "3", "4", "5", "6", "7", "8", "9" >>
NaN == 0 - 1
ParseInt(str) ==
  IF \E i \in DOMAIN IdStrings : IdStrings[i] = str
    THEN CHOOSE i \in DOMAIN IdStrings : IdStrings[i] = str
    ELSE NaN

\* What fetchOpenOrders can answer: the call fails, no open order, or one
\* open order whose id is the id of a stored Trade, the next free id, or
\* not a number.
OpenOrderIds ==
  { IdStrings[i] : i \in { j \in DOMAIN IdStrings : j <= Len(trades) + 1 } }
    \cup { "a1b" }
OpenOrdersResults ==
  { [ok |-> FALSE, list |-> <<>>], [ok |-> TRUE, list |-> <<>>] } \cup
  { [ok |-> TRUE,
     list |-> << [id |-> id, symbol |-> Symbol, side |-> side,
                  amount |-> 7, price |-> 101] >>] :
      id \in OpenOrderIds, side \in {"buy", "sell"} }

\* part_001 199-207: the Trade sync builds from an open order; error is
\* left undefined.
SyncTrade(order, e, n) ==
  [id |-> ParseInt(order.id), symbol |-> order.symbol, exchange |-> e.name,
   type |-> order.side, amount |-> order.amount, price |-> order.price,
   success |-> FALSE, by |-> BySync(n)]

\* repository.save of an entity whose id is set by the caller: an existing
\* row takes the entity's defined columns, otherwise a row is inserted.
UpsertTrade(table, e) ==
  IF e.id \in DOMAIN table
    THEN [table EXCEPT ![e.id] =
            [f \in DOMAIN table[e.id] |->
               IF f \in DOMAIN e THEN e[f] ELSE table[e.id][f]]]
    ELSE Append(table, [f \in (DOMAIN e \ {"id"}) \cup {"error"} |->
                          IF f = "error" THEN "" ELSE e[f]])

\* part_001 257-259: find({ where: { success: false } }), optionally
\* filtered by --exchange.
LoadFailed(filter) ==
  LET Sel(i) == /\ ~trades[i].success
                /\ filter \in {"", trades[i].exchange}
      F[i \in 0..Len(trades)] ==
        IF i = 0 THEN <<>>
        ELSE IF Sel(i)
          THEN Append(F[i - 1],
                      [f \in DOMAIN trades[i] \cup {"id"} |->
                         IF f = "id" THEN i ELSE trades[i][f]])
          ELSE F[i - 1]
  IN F[Len(trades)]

\* part_001 273-274: the loaded Trade after the venue cancelled the order
Cancelled(trade) ==
  [trade EXCEPT !.success = FALSE, !.error = "Ordem cancelada manualmente"]

\* part_001 156: sync starts its loop over the selected exchanges.
SyncStart ==
  /\ cmd.pc = "idle"
  /\ cmd.runs < MaxCommands
  /\ cmd' = [cmd EXCEPT !.pc = "openOrders", !.name = "sync",
                        !.runs = @ + 1, !.venues = exchanges]
  /\ UNCHANGED << exchanges, positions, trades, orders, now, auto, calls,
                  cli, ex, sup, poll >>

\* part_001 196-197, 211-213: fetchOpenOrders answers or throws.
SyncOpenOrders ==
  /\ cmd.pc = "openOrders"
  /\ \E r \in OpenOrdersResults :
       cmd' = [cmd EXCEPT !.pc = IF r.ok /\ r.list # <<>> THEN "saveOrder"
                                 ELSE "positions",
                          !.open = r.list]
  /\ UNCHANGED << exchanges, positions, trades, orders, now, auto, calls,
                  cli, ex, sup, poll >>

\* part_001 198-209: one open order is saved as a Trade under the order's
\* id.  With an id that is not a number the save throws (the catch of 211
\* leaves the loop) or inserts under a generated id.
SyncSaveOrder ==
  /\ cmd.pc = "saveOrder"
  /\ Len(trades) < Len(IdStrings)
  /\ LET trade == SyncTrade(Head(cmd.open), Head(cmd.venues), cmd.runs)
         rest == Tail(cmd.open)
         after == [cmd EXCEPT !.open = rest,
                              !.pc = IF rest = <<>> THEN "positions"
                                     ELSE "saveOrder"]
     IN IF trade.id = NaN
          THEN \/ /\ trades' = trades
                  /\ cmd' = [cmd EXCEPT !.open = <<>>, !.pc = "positions"]
               \/ /\ trades' = UpsertTrade(trades, [trade EXCEPT !.id = Len(trades) + 1])
                  /\ cmd' = after
          ELSE /\ trades' = UpsertTrade(trades, trade)
               /\ cmd' = after
  /\ UNCHANGED << exchanges, positions, orders, now, auto, calls, cli, ex,
                  sup, poll >>

\* part_001 215-238: for a futures venue fetchPositions answers nothing,
\* throws, or reports a position that is inserted as an open Position;
\* then the next venue.
SyncPositions ==
  /\ cmd.pc = "positions"
  /\ LET e == Head(cmd.venues)
         rest == Tail(cmd.venues)
         synced == [symbol |-> Symbol, exchange |-> e.name, amount |-> 7,
                    buyPrice |-> 100,
                    stopLossPrice |-> (100 * StopLossKeepPercent) \div 100,
                    sellPrice |-> NoValue, profit |-> NoValue,
                    timestamp |-> now, closed |-> FALSE, inv |-> 0]
     IN /\ \/ positions' = positions
           \/ /\ e.type = "futures"
              /\ positions' = Append(positions, synced)
        /\ cmd' = IF rest = <<>> THEN CmdIdle(cmd.runs)
                  ELSE [cmd EXCEPT !.venues = rest, !.pc = "openOrders"]
  /\ UNCHANGED << exchanges, trades, orders, now, auto, calls, cli, ex,
                  sup, poll >>

\* part_001 257-264: cancel-all-orders loads the Trades with success =
\* false and returns when there is none.
CancelAllStart ==
  /\ cmd.pc = "idle"
  /\ cmd.runs < MaxCommands
  /\ \E filter \in {""} \cup { exchanges[i].name : i \in DOMAIN exchanges } :
       LET loaded == LoadFailed(filter)
       IN cmd' = IF loaded = <<>> THEN CmdIdle(cmd.runs + 1)
                 ELSE [cmd EXCEPT !.pc = "cancel", !.name = "cancel-all-orders",
                                  !.runs = @ + 1, !.loaded = loaded]
  /\ UNCHANGED << exchanges, positions, trades, orders, now, auto, calls,
                  cli, ex, sup, poll >>

\* part_001 266-274, 277-279: the venue is asked to cancel the order whose
\* id is the Trade's id; it does, or the call throws and the loop goes on.
CancelOrder ==
  /\ cmd.pc = "cancel"
  /\ LET trade == Head(cmd.loaded)
         rest == Tail(cmd.loaded)
         known == \E i \in DOMAIN exchanges : exchanges[i].name = trade.exchange
         next == IF rest = <<>> THEN CmdIdle(cmd.runs)
                 ELSE [cmd EXCEPT !.loaded = rest]
     IN \/ cmd' = next
        \/ /\ known
           /\ cmd' = [cmd EXCEPT !.pc = "saveCancelled",
                                 !.loaded = << Cancelled(trade) >> \o rest]
  /\ UNCHANGED << exchanges, positions, trades, orders, now, auto, calls,
                  cli, ex, sup, poll >>

\* part_001 275: the loaded Trade is saved.
CancelSave ==
  /\ cmd.pc = "saveCancelled"
  /\ trades' = SaveEntity(trades, Head(cmd.loaded))
  /\ cmd' = IF Tail(cmd.loaded) = <<>> THEN CmdIdle(cmd.runs)
            ELSE [cmd EXCEPT !.pc = "cancel", !.loaded = Tail(cmd.loaded)]
  /\ UNCHANGED << exchanges, positions, orders, now, auto, calls, cli, ex,
                  sup, poll >>

MaintNext ==
  \/ SyncStart
  \/ SyncOpenOrders
  \/ SyncSaveOrder
  \/ SyncPositions
  \/ CancelAllStart
  \/ CancelOrder
  \/ CancelSave

MaintSpec == MaintInit /\ [][MaintNext]_vars

\* ============================================ monitor command, startup
\* The monitor command from its options to its first call of
\* monitorOpportunities (part_001 305-372).

\* Exchange rows getExchanges() can return.
RegisteredChoices ==
  { <<>>,
    << [name |-> "gate", type |-> "spot"], [name |-> "bybit", type |-> "futures"] >>,
    << [name |-> "binance", type |-> "spot"], [name |-> "bybit", type |-> "futures"] >>,
    << [name |-> "gate", type |-> "spot"], [name |-> "binance", type |-> "spot"],
       [name |-> "bybit", type |-> "futures"] >> }

\* --exchanges: not given (<<>>) or the list of names given.
ExchangesOptions ==
  { <<>>, << {"gate", "bybit"} >>, << {"binance", "bybit"} >>, << {"bybit"} >>,
    << {"kraken"} >> }

\* --symbols: not given (<<>>) or the list given; split(",") gives at
\* least one element.
SymbolsOptions == { <<>>, << << "BTC/USDT" >> >>, << Symbols >> }

\* --symbol-limit as the action receives it: the default, or NaN (a given
\* value is parsed by parseInt with the default as radix).
DefaultSymbolLimit == 1000
SymbolLimits == { DefaultSymbolLimit, NaN }

\* CompatibleSymbol tables pair-symbols can have left.
CompatibleChoices ==
  LET btc == [symbol |-> "BTC/USDT", exchanges |-> {"gate", "bybit"}]
      eth == [symbol |-> "ETH/USDT", exchanges |-> {"binance", "bybit"}]
      sol == [symbol |-> "SOL/USDT", exchanges |-> {"gate", "binance", "bybit"}]
  IN { <<>>, << btc >>, << eth >>, << btc, eth >>, << btc, sol >> }

StartInit ==
  /\ exchanges = <<>>
  /\ positions = <<>>
  /\ trades = <<>>
  /\ orders = {}
  /\ now = 0
  /\ auto \in BOOLEAN
  /\ calls = 0
  /\ ex = IdleEx
  /\ sup = <<>>
  /\ poll = NoPoll
  /\ cmd = NoCmd
  /\ \E all \in RegisteredChoices, eo \in ExchangesOptions, so \in SymbolsOptions,
        as \in BOOLEAN, lim \in SymbolLimits, compat \in CompatibleChoices :
       cli = [pc |-> "start", ops |-> <<>>, allExchanges |-> all,
              exchangesOption |-> eo, symbolsOption |-> so, allSymbols |-> as,
              symbolLimit |-> lim, compatibleSymbols |-> compat,
              symbols |-> <<>>]

\* part_001 321-323
SelectedExchanges(all, eo) ==
  IF eo # <<>> THEN SelectSeq(all, LAMBDA e : e.name \in eo[1]) ELSE all

\* Array.prototype.slice(0, n)
Slice(seq, n) == IF n >= Len(seq) THEN seq ELSE SubSeq(seq, 1, Max(n, 0))

\* part_001 339-343: the compatible symbols every selected venue lists, up
\* to the limit
CompatibleWithAll(compat, selected, lim) ==
  LET symbolLimit == IF lim = NaN THEN DefaultSymbolLimit ELSE lim
      every(cs) == \A i \in 1..Len(selected) : selected[i].name \in cs.exchanges
      kept == SelectSeq(compat, every)
  IN Slice([i \in 1..Len(kept) |-> kept[i].symbol], symbolLimit)

\* part_001 321-328: the selection; none selected is fatal.
StartSelect ==
  /\ cli.pc = "start"
  /\ exchanges' = SelectedExchanges(cli.allExchanges, cli.exchangesOption)
  /\ cli' = [cli EXCEPT !.pc = IF Len(exchanges') = 0 THEN "exit" ELSE "symbols"]
  /\ UNCHANGED << positions, trades, orders, now, auto, calls, ex, sup, poll, cmd >>

\* part_001 330-352: the symbols to monitor, from the CompatibleSymbol
\* table or from --symbols; the two process.exit(1) of this block.
StartSymbols ==
  /\ cli.pc = "symbols"
  /\ cli' =
       IF cli.allSymbols
         THEN IF Len(cli.compatibleSymbols) = 0 THEN [cli EXCEPT !.pc = "exit"]
              ELSE [cli EXCEPT !.pc = "call",
                               !.symbols = CompatibleWithAll(cli.compatibleSymbols,
                                                             exchanges, cli.symbolLimit)]
         ELSE LET symbolsToMonitor == IF cli.symbolsOption # <<>>
                                        THEN cli.symbolsOption[1] ELSE <<>>
              IN IF Len(symbolsToMonitor) = 0 THEN [cli EXCEPT !.pc = "exit"]
                 ELSE [cli EXCEPT !.pc = "call", !.symbols = symbolsToMonitor]
  /\ UNCHANGED << exchanges, positions, trades, orders, now, auto, calls, ex, sup,
                  poll, cmd >>

StartNext ==
  \/ StartSelect
  \/ StartSymbols
  \/ MonitorCall

StartSpec == StartInit /\ [][StartNext]_vars

\* ================================================== the periodic tasks
\* A monitor run without --auto on an empty store, followed over several
\* calls of monitorOpportunities: the command's loop and the checkPositions
\* timer chains that the calls start.

\* Calls of monitorOpportunities followed in these runs.
MaxTaskCalls == 3

TaskInit ==
  /\ exchanges \in Selections
  /\ positions = <<>>
  /\ trades = <<>>
  /\ orders = {}
  /\ now = 0
  /\ auto = FALSE
  /\ calls = 0
  /\ cli = [pc |-> "call", ops |-> <<>>]
  /\ ex = IdleEx
  /\ sup = <<>>
  /\ poll = NoPoll
  /\ cmd = NoCmd

\* part_001 361-372: the next call of the command's while loop
TaskCall == MonitorCallUpTo(MaxTaskCalls)

TaskNext ==
  \/ TaskCall
  \/ MonitorReturn
  \/ LogOnly
  \/ CliSleep
  \/ \E c \in DOMAIN sup :
       \/ SupFind(c)
       \/ SupTimer(c)

TaskSpec == TaskInit /\ [][TaskNext]_vars

\* ============================================ the Supervisor on a store
\* The checkPositions chains of a monitor run that starts on a Position
\* table earlier runs and sync have left, without the opportunity
\* pipeline: one chain, or the chains of two calls of monitorOpportunities.

\* Venue selections of these runs; the last has no derivatives venue.
SupSelections ==
  Selections \cup { << [name |-> "gate", type |-> "spot"] >> }

\* A stored Position as executeOpportunity leaves it for buy price p.
StoredPosition(venue, p, isClosed) ==
  [symbol |-> Symbol, exchange |-> venue, amount |-> Div(amountBuy, p),
   buyPrice |-> p, stopLossPrice |-> (p * StopLossKeepPercent) \div 100,
   sellPrice |-> NoValue, profit |-> NoValue, timestamp |-> 0,
   closed |-> isClosed, inv |-> 0]

\* Position tables the runs start on: open Positions bought at 100 and at
\* 250 on the selected spot venue, a Position that sync stored for the
\* derivatives venue, a Position of a venue that is not selected, a closed
\* Position.
StoreChoices(sel) ==
  LET a == StoredPosition(sel[1].name, 100, FALSE)
      b == StoredPosition(sel[1].name, 250, FALSE)
      synced == StoredPosition("bybit", 100, FALSE)
      other == StoredPosition("kraken", 100, FALSE)
      done == StoredPosition(sel[1].name, 100, TRUE)
  IN { << a >>, << b >>, << a, b >>, << synced, a >>, << other, b >>,
       << done, a >> }

\* The chains when the run starts: the chain of the first call is in its
\* find; after a second call the first chain waits for its timer and the
\* second is in its find (only followed on a one-Position table).
ChainChoices(table) ==
  { << [pc |-> "find", cycle |-> 1, queue |-> <<>>] >> } \cup
  (IF Len(table) = 1
     THEN { << [pc |-> "timer", cycle |-> 1, queue |-> <<>>],
               [pc |-> "find", cycle |-> 1, queue |-> <<>>] >> }
     ELSE {})

SupInit ==
  /\ exchanges \in SupSelections
  /\ positions \in StoreChoices(exchanges)
  /\ trades = <<>>
  /\ orders = {}
  /\ now = 0
  /\ auto = FALSE
  /\ calls = 1
  /\ cli = [pc |-> "poll", ops |-> <<>>]
  /\ ex = IdleEx
  /\ sup \in ChainChoices(positions)
  /\ poll = NoPoll
  /\ cmd = NoCmd

SupNext ==
  \/ Tick
  \/ \E c \in DOMAIN sup :
       \/ SupFind(c)
       \/ SupSpotTicker(c)
       \/ SupFuturesTicker(c)
       \/ SupSpotSell(c)
       \/ SupSaveSpotTrade(c)
       \/ SupFuturesBuy(c)
       \/ SupSavePosition(c)
       \/ SupSaveFuturesTrade(c)
       \/ SupTimer(c)

SupSpec == SupInit /\ [][SupNext]_vars

\* =============================================================== claims
\* Orders and Trades of one executeOpportunity invocation / of one
\* Supervisor handling (chain c, cycle, Position id).
ExecOrders(n) == { o \in orders : o.by = ByExec(n) }
ExecTrades(n) == { i \in DOMAIN trades : trades[i].by = ByExec(n) }
ExecFinished(n) == ex.n > n \/ (ex.n = n /\ ex.pc \in {"done", "idle"})
ExecPositions(n) == { i \in DOMAIN positions : positions[i].inv = n }
ExecStep == ex' # ex

SupOrders(h) == { o \in orders : o.by = h }
SupTrades(h) == { i \in DOMAIN trades : trades[i].by = h }
Handling(c) == BySup(c, sup[c].cycle, sup[c].pos.id)
Unwinding(c) ==
  sup[c].pc \in {"spotSell", "saveSpotTrade", "futuresBuy", "savePosition",
                 "saveFuturesTrade"}
SupBusy(h) ==
  /\ h.c \in DOMAIN sup
  /\ Unwinding(h.c)
  /\ Handling(h.c) = h

\* C1: once a stored Position has closed = true, no later step of
\* executeOpportunity or of a Supervisor cycle stores closed = false for it.
C1_ClosedMonotone ==
  [][\A i \in DOMAIN positions : positions[i].closed => positions'[i].closed]_vars

\* C2: every started executeOpportunity invocation has exactly one stored
\* Position, inserted with closed = false, and the row exists before any
\* order of that invocation is submitted.
C2_Stored ==
  /\ \A n \in 1..ex.n : Cardinality(ExecPositions(n)) = 1
  /\ \A o \in orders : o.by.k = "exec" => ExecPositions(o.by.n) # {}
C2_Inserted ==
  Len(positions') > Len(positions) =>
    /\ Len(positions') = Len(positions) + 1
    /\ positions'[Len(positions')].closed = FALSE
    /\ ExecStep /\ ex'.n = ex.n + 1
    /\ positions'[Len(positions')].inv = ex'.n
    /\ ExecOrders(ex'.n) = {}
    /\ orders' = orders
C2_OnePositionBeforeOrders == [](C2_Stored) /\ [][C2_Inserted]_vars

C2_Witness ==
  \E o \in orders : /\ o.by.k = "exec" /\ o.side = "buy"
                    /\ Cardinality(ExecPositions(o.by.n)) = 1

\* C3: after a failed buy order, the invocation records exactly one Trade
\* (buy, success = false), submits no sell order, records no sell Trade,
\* and writes nothing more to the Position (it was inserted closed = false).
FailedBuy(n) == \E o \in ExecOrders(n) : o.side = "buy" /\ ~o.ok
C3_State ==
  \A n \in 1..ex.n : FailedBuy(n) =>
    /\ \A o \in ExecOrders(n) : o.side = "buy"
    /\ \A i \in ExecTrades(n) : /\ trades[i].type = "buy"
                                /\ trades[i].success = FALSE
                                /\ trades[i].error # ""
    /\ Cardinality(ExecTrades(n)) <= 1
    /\ ExecFinished(n) => Cardinality(ExecTrades(n)) = 1
C3_Frame ==
  (ExecStep /\ ex.pc # "idle" /\ FailedBuy(ex.n)) =>
    /\ positions' = positions
    /\ ex'.pc \in {"saveBuyTrade", "done", "idle"}
C3_BuyFailure == [](C3_State) /\ [][C3_Frame]_vars

C3_Witness == ex.pc = "done" /\ FailedBuy(ex.n) /\ Cardinality(ExecTrades(ex.n)) = 1

\* Supervisor handlings that can have touched Position i.
Handlings(i) ==
  { BySup(c, y, i) : c \in DOMAIN sup, y \in 1..MaxCycles }
OkOrder(h, side) == \E o \in SupOrders(h) : o.side = side /\ o.ok
OkTrade(h, type) == \E t \in SupTrades(h) : trades[t].type = type /\ trades[t].success

\* C4 (as stated): a Position is closed only by a Supervisor handling whose
\* spot sell and derivatives buy both succeeded, and in every reachable
\* state a closed Position has a successful Trade for each unwind leg.
C4_ClosedHasBothTrades ==
  \A i \in DOMAIN positions : positions[i].closed =>
    \E h \in Handlings(i) :
      /\ OkOrder(h, "sell") /\ OkOrder(h, "buy")
      /\ OkTrade(h, "sell") /\ OkTrade(h, "buy")

\* C4 (amended): a closed Position was closed by a Supervisor handling
\* whose two unwind orders both succeeded; its successful spot sell Trade
\* is recorded, and its successful derivatives buy Trade is recorded once
\* that handling has saved it (the Position is saved first).
C4_ClosedOnlyAfterBothLegs ==
  \A i \in DOMAIN positions : positions[i].closed =>
    \E h \in Handlings(i) :
      /\ OkOrder(h, "sell") /\ OkOrder(h, "buy")
      /\ OkTrade(h, "sell")
      /\ OkTrade(h, "buy") \/ (SupBusy(h) /\ sup[h.c].pc = "saveFuturesTrade"
                                          /\ sup[h.c].trade.success)

C4_Witness ==
  \E i \in DOMAIN positions :
    /\ positions[i].closed
    /\ \E h \in Handlings(i) : OkTrade(h, "sell") /\ OkTrade(h, "buy")

\* C5: for every stored Position, sellPrice is set iff profit is set, and
\* either being set implies closed = true.
C5_ExitFieldsOnlyWhenClosed ==
  \A i \in DOMAIN positions :
    /\ (positions[i].sellPrice # NoValue) <=> (positions[i].profit # NoValue)
    /\ (positions[i].sellPrice # NoValue \/ positions[i].profit # NoValue)
         => positions[i].closed

\* C6: when the spot unwind sell fails, that handling records one failed
\* sell Trade, submits no derivatives order, records no derivatives Trade
\* and does not write the Position.
FailedSpotSell(h) == \E o \in SupOrders(h) : o.side = "sell" /\ ~o.ok
AllHandlings == UNION { Handlings(i) : i \in DOMAIN positions }
C6_State ==
  \A h \in AllHandlings : FailedSpotSell(h) =>
    /\ \A o \in SupOrders(h) : o.side = "sell"
    /\ \A t \in SupTrades(h) : /\ trades[t].type = "sell"
                               /\ trades[t].success = FALSE
                               /\ trades[t].error # ""
    /\ Cardinality(SupTrades(h)) <= 1
    /\ ~SupBusy(h) => Cardinality(SupTrades(h)) = 1
C6_Frame ==
  \A c \in DOMAIN sup :
    (sup'[c] # sup[c] /\ Unwinding(c) /\ FailedSpotSell(Handling(c))) =>
      /\ positions' = positions
      /\ sup[c].pc = "saveSpotTrade"
      /\ sup'[c].pc \in {"spotTicker", "timer"}
C6_SpotSellFailure == [](C6_State) /\ [][C6_Frame]_vars

C6_Witness ==
  \E h \in AllHandlings :
    /\ FailedSpotSell(h) /\ ~SupBusy(h) /\ Cardinality(SupTrades(h)) = 1
    /\ ~positions[h.p].closed

\* C7: when the spot unwind sell succeeds and the derivatives buy fails,
\* the handling does not write the Position (closed, sellPrice and profit
\* stay as they were) and records a Trade for each leg: spot sell with
\* success = true, derivatives buy with success = false.
FailedFuturesBuy(h) == \E o \in SupOrders(h) : o.side = "buy" /\ ~o.ok
C7_State ==
  \A h \in AllHandlings : FailedFuturesBuy(h) =>
    /\ OkOrder(h, "sell")
    /\ \E t \in SupTrades(h) : /\ trades[t].type = "sell" /\ trades[t].success
                               /\ trades[t].exchange = positions[h.p].exchange
    /\ \A t \in SupTrades(h) : trades[t].type = "buy" =>
         /\ trades[t].success = FALSE
         /\ trades[t].exchange = futuresExchanges[1].name
    /\ Cardinality(SupTrades(h)) <= 2
    /\ ~SupBusy(h) => Cardinality(SupTrades(h)) = 2
C7_Frame ==
  \A c \in DOMAIN sup :
    (sup'[c] # sup[c] /\ Unwinding(c) /\ FailedFuturesBuy(Handling(c))) =>
      /\ positions' = positions
      /\ sup[c].pc = "saveFuturesTrade"
C7_FuturesBuyFailure == [](C7_State) /\ [][C7_Frame]_vars

C7_Witness ==
  \E h \in AllHandlings :
    /\ FailedFuturesBuy(h) /\ ~SupBusy(h) /\ Cardinality(SupTrades(h)) = 2
    /\ ~positions[h.p].closed /\ positions[h.p].sellPrice = NoValue

\* C8: after a successful buy order the invocation submits its sell order
\* on the derivatives venue (never before the buy succeeded and its Trade
\* was saved) and records exactly one sell Trade, after a successful and
\* after a failed sell order alike.
OkBuy(n) == \E o \in ExecOrders(n) : o.side = "buy" /\ o.ok
ExecSellOrders(n) == { o \in ExecOrders(n) : o.side = "sell" }
ExecSellTrades(n) == { i \in ExecTrades(n) : trades[i].type = "sell" }
C8_State ==
  \A n \in 1..ex.n :
    /\ ExecSellOrders(n) # {} => OkBuy(n)
    /\ OkBuy(n) =>
         /\ Cardinality(ExecSellOrders(n)) <= 1
         /\ \A o \in ExecSellOrders(n) :
              \E e \in Range(futuresExchanges) : e.name = o.exchange
         /\ Cardinality(ExecSellTrades(n)) <= 1
         /\ \A i \in ExecSellTrades(n) :
              \E o \in ExecSellOrders(n) : trades[i].exchange = o.exchange
         /\ ExecFinished(n) => /\ Cardinality(ExecSellOrders(n)) = 1
                               /\ Cardinality(ExecSellTrades(n)) = 1
C8_Order ==
  ({ o \in orders' \ orders : o.by.k = "exec" /\ o.side = "sell" } # {}) =>
    /\ ex'.n = ex.n
    /\ \A o \in orders' \ orders : o.by = ByExec(ex.n)
    /\ OkBuy(ex.n)
    /\ \E i \in ExecTrades(ex.n) : trades[i].type = "buy" /\ trades[i].success
C8_SellAfterBuy == [](C8_State) /\ [][C8_Order]_vars

C8_Witness ==
  /\ ex.pc = "done" /\ OkBuy(ex.n)
  /\ Cardinality(ExecSellTrades(ex.n)) = 1
  /\ \E o \in ExecSellOrders(ex.n) : ~o.ok

\* C9: executeOpportunity leaves its Position closed = false in every
\* outcome: every write it makes to the store leaves the row it created
\* with closed = false, including the write after both orders succeeded;
\* a Position becomes closed only in a Supervisor step, so a Position
\* found closed when executeOpportunity has returned was closed by a
\* Supervisor handling whose two orders succeeded.
C9_ExecWrites ==
  (ExecStep /\ positions' # positions) =>
    \A i \in DOMAIN positions' :
      positions'[i].inv = ex'.n => positions'[i].closed = FALSE
C9_OnlySupervisorCloses ==
  (\E i \in DOMAIN positions : ~positions[i].closed /\ positions'[i].closed) =>
    /\ ex' = ex
    /\ \E c \in DOMAIN sup : sup[c].pc = "savePosition" /\ sup'[c] # sup[c]
C9_Returned ==
  ex.pc = "done" =>
    \A i \in ExecPositions(ex.n) :
      \/ positions[i].closed = FALSE
      \/ \E h \in Handlings(i) : OkOrder(h, "sell") /\ OkOrder(h, "buy")
C9_ExecLeavesOpen ==
  [](C9_Returned) /\ [][C9_ExecWrites /\ C9_OnlySupervisorCloses]_vars

C9_Witness ==
  /\ ex.pc = "done"
  /\ \E o \in ExecSellOrders(ex.n) : o.ok
  /\ \A i \in ExecPositions(ex.n) :
       positions[i].closed = FALSE /\ positions[i].sellPrice # NoValue

\* C10: the Supervisor unwinds a re-quoted open Position exactly when
\* spot <= stopLossPrice, or the time elapsed since the Position's
\* timestamp exceeds stopLossTimeout, or |spot - derivatives| <=
\* convergenceRange; otherwise that handling submits no order, records no
\* Trade and leaves the Position as it was.
C10_Condition(pos, spotPrice, futuresPrice, elapsed) ==
  \/ spotPrice <= pos.stopLossPrice
  \/ elapsed > stopLossTimeout
  \/ (IF spotPrice >= futuresPrice THEN spotPrice - futuresPrice
      ELSE futuresPrice - spotPrice) <= ConvergenceRange
C10_State ==
  \A c \in DOMAIN sup :
    /\ Unwinding(c) =>
         C10_Condition(sup[c].pos, sup[c].spotPrice, sup[c].futuresPrice,
                       sup[c].timeElapsed)
    /\ "waited" \in DOMAIN sup[c] =>
         LET w == sup[c].waited
             h == BySup(c, sup[c].cycle, w.pos.id)
         IN /\ ~C10_Condition(w.pos, w.spotPrice, w.futuresPrice, w.timeElapsed)
            /\ SupOrders(h) = {} /\ SupTrades(h) = {}
C10_Decision ==
  \A c \in DOMAIN sup :
    (sup[c].pc = "futuresTicker" /\ sup'[c] # sup[c]) =>
      /\ orders' = orders /\ trades' = trades /\ positions' = positions
      /\ sup'[c].pc = "spotSell" \/ "waited" \in DOMAIN sup'[c] \/ sup'[c].pc = "dead"
      /\ sup'[c].pc = "spotSell" =>
           /\ sup'[c].pos = sup[c].pos
           /\ sup'[c].spotPrice = sup[c].spotPrice
           /\ sup'[c].timeElapsed = now - sup[c].pos.timestamp
      /\ "waited" \in DOMAIN sup'[c] =>
           /\ sup'[c].waited.pos = sup[c].pos
           /\ sup'[c].waited.spotPrice = sup[c].spotPrice
           /\ sup'[c].waited.timeElapsed = now - sup[c].pos.timestamp
C10_Placed ==
  \A c \in DOMAIN sup :
    (sup[c].pc = "spotSell" /\ sup'[c] # sup[c]) =>
      \E o \in orders' \ orders : o.by = Handling(c) /\ o.side = "sell"
C10_UnwindIffTriggered ==
  [](C10_State) /\ [][C10_Decision /\ C10_Placed]_vars

C10_Witness ==
  /\ \E c \in DOMAIN sup : "waited" \in DOMAIN sup[c]
  /\ \E o \in orders : o.by.k = "sup"

\* ------------------------------------------------ Poller and Scorer claims
\* The quotes venues named n returned for symbol k in this cycle.
Answers(n, k) ==
  { poll.resp[v][k].q : v \in { w \in Venues : exchanges[w].name = n
                                               /\ poll.resp[w][k].st = "ok" } }
FetchDone == poll.pc \in {"score", "returned", "sleep"}

\* C11: a failed quote fetch changes no cache entry, and every other
\* (venue, symbol) of the cycle is still fetched and cached: a slot holds a
\* quote exactly when a venue of that name returned one for that symbol in
\* this cycle, and once the fetch phase is over every venue has been asked
\* for every symbol.
C11_State ==
  /\ \A n \in Names : \A k \in SymbolIds :
       /\ (poll.prices[n][k] = <<>>) <=> (Answers(n, k) = {})
       /\ poll.prices[n][k] # <<>> => poll.prices[n][k] \in Answers(n, k)
  /\ FetchDone => \A v \in Venues : \A k \in SymbolIds : poll.resp[v][k].st # "none"
C11_FailedFetch ==
  \A v \in Venues : \A k \in SymbolIds :
    (poll.pc = "fetch" /\ poll'.pc = "fetch"
       /\ poll.resp[v][k].st = "none" /\ poll'.resp[v][k].st = "failed") =>
      /\ poll'.prices = poll.prices
      /\ \A w \in Venues \ {v} : poll'.at[w] = poll.at[w]
      /\ poll'.at[v] = k + 1
C11_FaultIsolation == [](C11_State) /\ [][C11_FailedFetch]_vars

C11_Witness ==
  /\ FetchDone
  /\ \E v \in Venues :
       /\ poll.resp[v][1].st = "failed"
       /\ poll.resp[v][2].st = "ok"
       /\ poll.prices[exchanges[v].name][2] = poll.resp[v][2].q
       /\ \E w \in Venues \ {v} :
            /\ exchanges[w].name # exchanges[v].name
            /\ \A k \in SymbolIds : poll.prices[exchanges[w].name][k] # <<>>

\* The triple and the two cache slots a log entry was computed from (the
\* cache does not change while the Scorer runs).
LogSpot(e) == poll.prices[TripleAt(e.idx).spotEx.name][TripleAt(e.idx).k]
LogFutures(e) == poll.prices[TripleAt(e.idx).futuresEx.name][TripleAt(e.idx).k]
Pushed == { i \in DOMAIN poll.log : poll.log[i].outcome = "pushed" }

\* C12: every Opportunity the call collects is bought on a spot venue and
\* sold on a derivatives venue, with buyPrice < sellPrice and
\* minProfit <= profit <= maxProfit.
C12_ArbitrageShape ==
  /\ Len(poll.ops) = Cardinality(Pushed)
  /\ \A i \in DOMAIN poll.ops :
       LET op == poll.ops[i]
       IN /\ op.type = "arbitrage"
          /\ \E e \in Range(poll.log) :
               /\ e.outcome = "pushed"
               /\ TripleAt(e.idx).spotEx.type = "spot"
               /\ TripleAt(e.idx).spotEx.name = op.buyExchange
               /\ TripleAt(e.idx).futuresEx.type = "futures"
               /\ TripleAt(e.idx).futuresEx.name = op.sellExchange
               /\ Symbols[TripleAt(e.idx).k] = op.symbol
          /\ op.buyPrice < op.sellPrice
          /\ poll.cfg.minProfit <= op.profit
          /\ op.profit <= poll.cfg.maxProfit

C12_Witness == poll.pc = "returned" /\ Len(poll.ops) = 2

\* C13: the Scorer's thresholds are inclusive: a pair whose volumes are at
\* least minVolume (equal included) is not skipped for volume, and a pair
\* with spot < derivatives that passed the depth test and whose net profit
\* equals minProfit or maxProfit is pushed.
C13_Inclusive ==
  \A e \in Range(poll.log) :
    /\ (/\ LogSpot(e) # <<>> /\ LogFutures(e) # <<>>
        /\ ~(LogSpot(e)[1].volume < poll.cfg.minVolume)
        /\ ~(LogFutures(e)[1].volume < poll.cfg.minVolume))
         => e.outcome # "volume"
    /\ (/\ e.outcome \in {"pushed", "none"}
        /\ LogSpot(e)[1].price < LogFutures(e)[1].price
        /\ (LogFutures(e)[1].price - LogSpot(e)[1].price) * e.amount * 998
             \in {poll.cfg.minProfit, poll.cfg.maxProfit})
         => e.outcome = "pushed"

C13_Witness ==
  /\ \E op \in Range(poll.ops) : op.profit = poll.cfg.minProfit
  /\ \E op \in Range(poll.ops) : op.profit = poll.cfg.maxProfit
  /\ \A e \in Range(poll.log) :
       /\ e.outcome = "pushed"
       /\ LogSpot(e)[1].volume = poll.cfg.minVolume
       /\ LogFutures(e)[1].volume = poll.cfg.minVolume
  /\ poll.log # <<>>

\* C14: an Opportunity is pushed only when both order books were read in
\* that iteration and each top-of-book size is at least the computed
\* quantity; a depth skip or an order-book error pushes nothing and the
\* Scorer goes on to the next triple, so every triple of the cycle is
\* evaluated.
C14_State ==
  /\ \A e \in Range(poll.log) :
       e.outcome = "pushed" =>
         /\ e.book # <<>>
         /\ e.book[1] >= e.amount /\ e.book[2] >= e.amount
         /\ e.amount = ((poll.cfg.tradeAmount * 1000) \div 1002) \div LogSpot(e)[1].price
  /\ \A e \in Range(poll.log) :
       (e.book = <<>> \/ e.book[1] < e.amount \/ e.book[2] < e.amount)
         => e.outcome # "pushed"
  /\ \A i \in DOMAIN poll.log : poll.log[i].idx = i
  /\ poll.pc \in {"returned", "sleep"} => Len(poll.log) = TripleCount
C14_Skip ==
  (poll.pc = "score" /\ poll'.pc = "score" /\ Len(poll'.log) = Len(poll.log) + 1
     /\ poll'.log[Len(poll'.log)].outcome \in {"depth", "bookError"}) =>
    /\ poll'.ops = poll.ops
    /\ poll'.idx = poll.idx + 1
C14_DepthCovered == [](C14_State) /\ [][C14_Skip]_vars

C14_Witness ==
  /\ Len(poll.log) = 2
  /\ poll.log[1].outcome \in {"depth", "bookError"}
  /\ poll.log[2].outcome = "pushed"

\* C16: every evaluated pair is sized net of fees: quantity =
\* tradeAmount / (1 + 2*feeRate) / spotPrice and net profit =
\* (derivativesPrice - spotPrice) * quantity * (1 - 2*feeRate), feeRate
\* 0.001; for spot 100, derivatives 110 and tradeAmount 1000 the quantity
\* is 9.98 and the net profit 99.6 to three digits.  (A spot quote without
\* price has no quotient; the code's division gives Infinity.)
C16_NetOfFees ==
  /\ \A e \in Range(poll.log) :
       (e.outcome \notin {"nodata", "volume"} /\ LogSpot(e)[1].price # 0) =>
         /\ e.amount = ((poll.cfg.tradeAmount * 1000) \div 1002) \div LogSpot(e)[1].price
         /\ (poll.cfg.tradeAmount = 1000000 /\ LogSpot(e)[1].price = 100)
              => e.amount \div 10 = 998
  /\ \A op \in Range(poll.ops) :
       /\ op.profit = (op.sellPrice - op.buyPrice)
                        * (((poll.cfg.tradeAmount * 1000) \div 1002) \div op.buyPrice)
                        * 998
       /\ (poll.cfg.tradeAmount = 1000000 /\ op.buyPrice = 100 /\ op.sellPrice = 110)
            => op.profit \div 100000 = 996

C16_Witness ==
  /\ poll.cfg.tradeAmount = 1000000
  /\ \E op \in Range(poll.ops) : op.buyPrice = 100 /\ op.sellPrice = 110

\* C17: two runs of the Scorer on the same PriceCache contents with the
\* same configuration collect the same Opportunities.
C17_SameCacheSameResult ==
  (poll.run = 2 /\ poll.idx > TripleCount) => poll.ops = poll.first

\* ------------------------------------------------------ lifecycle claims
\* C15: when the Supervisor closes a Position, the stored sellPrice is the
\* spot quote of that handling and the stored profit is
\* (sellPrice - buyPrice) * amount * (1 - 2*feeRate), feeRate 0.001.
C15_Close ==
  \A c \in DOMAIN sup :
    (sup[c].pc = "savePosition" /\ sup'[c] # sup[c]) =>
      LET i == sup[c].pos.id
      IN /\ positions'[i].closed
         /\ positions'[i].sellPrice = {sup[c].spotPrice}
         /\ positions'[i].profit =
              {(sup[c].spotPrice - positions[i].buyPrice) * positions[i].amount * 998}
C15_Closed ==
  \A i \in DOMAIN positions : positions[i].closed =>
    \E x \in positions[i].sellPrice :
      positions[i].profit = {(x - positions[i].buyPrice) * positions[i].amount * 998}
C15_SupervisorProfit == [](C15_Closed) /\ [][C15_Close]_vars

C15_Witness ==
  \E i \in DOMAIN positions :
    /\ positions[i].closed
    /\ positions[i].sellPrice = {95}
    /\ positions[i].profit # {0}

\* C19: every save of a Position is based on the row as it is stored:
\* when executeOpportunity saves after its sell, the row is still as it
\* inserted it, and when the Supervisor closes a Position, the row is
\* still as that cycle loaded it.
C19_ExecFresh ==
  (ex.pc = "savePosition" /\ ex' # ex) =>
    LET row == positions[ex.position.id]
    IN /\ row.closed = FALSE
       /\ row.sellPrice = NoValue
       /\ row.profit = NoValue
C19_SupFresh ==
  \A c \in DOMAIN sup :
    (sup[c].pc = "futuresBuy" /\ sup'[c].pc = "savePosition") =>
      \A f \in DOMAIN positions[sup[c].pos.id] :
        positions[sup[c].pos.id][f] = sup[c].pos[f]
C19_AtomicUpdates == [][C19_ExecFresh /\ C19_SupFresh]_vars

\* The handler of a failed order is between the venue's rejection and the
\* save of that leg's Trade.
Recording(o) ==
  IF o.by.k = "exec"
    THEN /\ ex.n = o.by.n
         /\ \/ o.side = "buy" /\ ex.pc = "saveBuyTrade"
            \/ o.side = "sell" /\ ex.pc = "saveSellTrade"
    ELSE /\ SupBusy(o.by)
         /\ \/ o.side = "sell" /\ sup[o.by.c].pc = "saveSpotTrade"
            \/ o.side = "buy" /\ sup[o.by.c].pc = "saveFuturesTrade"
\* The leg that follows a failed first leg in the same sequence.
NextLeg(o) ==
  IF o.by.k = "exec" /\ o.side = "buy" THEN "sell"
  ELSE IF o.by.k = "sup" /\ o.side = "sell" THEN "buy"
  ELSE "none"

\* C20: every failed order, of executeOpportunity or of the Supervisor's
\* unwind, is recorded as a Trade with success = false and the venue's
\* message as error; no order is submitted for the next leg of that
\* sequence; and after saving the failed Trade the handler goes on:
\* executeOpportunity returns to the command's loop over Opportunities,
\* the Supervisor takes the next loaded Position or arms its timer.
C20_State ==
  \A o \in orders : ~o.ok =>
    /\ \/ Recording(o)
       \/ \E i \in DOMAIN trades :
            /\ trades[i].by = o.by
            /\ trades[i].type = o.side
            /\ trades[i].exchange = o.exchange
            /\ trades[i].success = FALSE
            /\ trades[i].error = "venue error"
    /\ \A q \in orders : q.by = o.by => q.side # NextLeg(o)
C20_Continue ==
  (Len(trades') = Len(trades) + 1 /\ ~trades'[Len(trades')].success) =>
    LET t == trades'[Len(trades')]
    IN IF t.by.k = "exec"
         THEN ex'.pc = "done"
         ELSE /\ sup'[t.by.c].pc \in {"spotTicker", "timer"}
              /\ sup'[t.by.c].cycle = sup[t.by.c].cycle
              /\ sup'[t.by.c].pc = "timer" =>
                   \A q \in Range(sup[t.by.c].queue) : Skipped(q)
C18_AppendOnly ==
  [][\A i \in DOMAIN trades :
       i \in DOMAIN trades' /\ trades'[i] = trades[i]]_vars

\* ------------------------------------------------- lifecycle claims, II

\* C21: without --auto the monitor command only logs the Opportunities:
\* executeOpportunity is never invoked, no Position is created, no order
\* is placed and no Trade is recorded.
C21_LogOnly ==
  ~auto => /\ ex = IdleEx
           /\ positions = <<>>
           /\ orders = {}
           /\ trades = <<>>

\* A run without --auto has gone through the Opportunities of a call.
C21_Witness ==
  /\ ~auto
  /\ calls = 1
  /\ cli.pc = "call"
  /\ \A c \in DOMAIN sup : sup[c].pc = "timer" /\ sup[c].cycle = MaxCycles

\* ---------------------------------------------------------- startup claims

\* C22: monitorOpportunities (the Poller and the Supervisor) is never
\* started with an empty venue set or an empty list of symbols.
C22_NoEmptyStart ==
  calls > 0 => Len(exchanges) > 0 /\ Len(cli.symbols) > 0

\* ------------------------------------------------- lifecycle claims, III

\* The Poller's half of C23: a quote without price yields no Opportunity.
PollerZeroQuote ==
  \A i \in DOMAIN poll.ops : poll.ops[i].buyPrice # 0 /\ poll.ops[i].sellPrice # 0

\* C23: a missing or zero quote is no data: the Supervisor places no
\* unwind order, and records no unwind Trade, in a handling whose spot or
\* derivatives quote was missing or zero.
C23_ZeroQuoteIsNoData ==
  /\ \A c \in DOMAIN sup :
       sup[c].pc \in {"spotSell", "saveSpotTrade", "futuresBuy", "savePosition",
                      "saveFuturesTrade"} =>
         sup[c].spotPrice # 0 /\ sup[c].futuresPrice # 0
  /\ \A i \in DOMAIN trades : trades[i].by.k = "sup" => trades[i].price # 0

\* ------------------------------------------------------- liveness claims

\* The other venues' fetch loops do finish while one call hangs.
OthersFetched ==
  (poll.hung # {}) ~>
    (\A v \in Venues : v \notin poll.hung => poll.at[v] > Len(Symbols))

\* C24: when one venue's quote call never returns during a cycle, the
\* quotes the other venues gave in that cycle are eventually scored.
C24_HangDoesNotStall == (poll.hung # {}) ~> (poll.pc = "score")

\* ------------------------------------------------- lifecycle claims, IV

\* C25: a venue error is never fatal to the Supervisor loop: every
\* checkPositions cycle, whatever the venue calls in it did, ends by
\* scheduling the next cycle, so no timer chain ever stops.
C25_SupervisorKeepsCycling ==
  \A c \in DOMAIN sup : sup[c].pc # "dead"

\* ------------------------------------------------------------ task claims

\* The checkPositions chains that have not stopped.
ActiveChains == { c \in DOMAIN sup : sup[c].pc # "dead" }

\* C26: however often the monitor command calls monitorOpportunities, at
\* most one checkPositions timer chain is active at a time.
C26_OneSupervisorChain == Cardinality(ActiveChains) <= 1

\* -------------------------------------------------- lifecycle claims, V

ClosingTrades(id, type) ==
  { i \in DOMAIN trades : /\ trades[i].by.k = "sup"
                          /\ trades[i].by.p = id
                          /\ trades[i].type = type
                          /\ trades[i].success }

\* C28: over its lifetime a Position has at most one successful closing
\* Trade per leg: at most one successful spot-side unwind sell and at most
\* one successful derivatives-side unwind buy.
C28_OneClosingTradePerLeg ==
  \A id \in DOMAIN positions :
    /\ Cardinality(ClosingTrades(id, "sell")) <= 1
    /\ Cardinality(ClosingTrades(id, "buy")) <= 1

\* The Position's opening buy leg failed (its failed buy Trade is stored).
BuyFailed(id) ==
  \E i \in DOMAIN trades : /\ trades[i].by = ByExec(positions[id].inv)
                           /\ trades[i].type = "buy"
                           /\ ~trades[i].success

\* C29: a Position whose opening buy leg failed stays open and untouched:
\* the Supervisor places no order for it, records no Trade for it, and its
\* row keeps closed = false with sellPrice and profit unset.
C29_FailedBuyUntouched ==
  \A id \in DOMAIN positions : BuyFailed(id) =>
    /\ \A o \in orders : ~(o.by.k = "sup" /\ o.by.p = id)
    /\ \A i \in DOMAIN trades : ~(trades[i].by.k = "sup" /\ trades[i].by.p = id)
    /\ ~positions[id].closed
    /\ positions[id].sellPrice = NoValue
    /\ positions[id].profit = NoValue

\* ------------------------------------------- Poller and Scorer claims, II

\* C30: the Scorer runs only when every venue's fetch loop of the cycle
\* has finished, and the slot it reads for a (venue, symbol) is what that
\* venue answered in this cycle: absent when the fetch failed, else the
\* quote returned.
C30_FailedSlotAbsent ==
  /\ poll.log # <<>> => FetchDone
  /\ FetchDone =>
       \A v \in Venues : \A k \in SymbolIds :
         /\ poll.at[v] > Len(Symbols)
         /\ poll.prices[exchanges[v].name][k] =
              (IF poll.resp[v][k].st = "ok" THEN poll.resp[v][k].q ELSE <<>>)

\* Two chains on a table of two open Positions, both in their last cycle:
\* the first is in its find, the second has left the first Position alone
\* and awaits the spot quote of the second.
TwoChainInit ==
  /\ exchanges = << [name |-> "gate", type |-> "spot"], [name |-> "bybit", type |-> "futures"] >>
  /\ positions = << StoredPosition("gate", 100, FALSE), StoredPosition("gate", 250, FALSE) >>
  /\ trades = <<>>
  /\ orders = {}
  /\ now = 0
  /\ auto = FALSE
  /\ calls = 2
  /\ cli = [pc |-> "poll", ops |-> <<>>]
  /\ ex = IdleEx
  /\ sup = << [pc |-> "find", cycle |-> MaxCycles, queue |-> <<>>],
              [pc |-> "spotTicker", cycle |-> MaxCycles, queue |-> <<>>,
               pos |-> openPositions[2]] >>
  /\ poll = NoPoll
  /\ cmd = NoCmd

TwoChainNext ==
  \E c \in DOMAIN sup :
    \/ SupFind(c) \/ SupSpotTicker(c) \/ SupFuturesTicker(c)
    \/ SupSpotSell(c) \/ SupSaveSpotTrade(c) \/ SupFuturesBuy(c)
    \/ SupSavePosition(c) \/ SupSaveFuturesTrade(c)

TwoChainSpec == TwoChainInit /\ [][TwoChainNext]_vars

\* ======================================= the Scorer of arbitrage.ts
\* The scoring pass of src/arbitrage.ts, which pushes convergence
\* Opportunities besides the arbitrage ones, as a function of the two cache
\* slots, the two top-of-book sizes and the configuration.

\* arbitrage.ts 156: the fixed divergence threshold, USDT
DivergenceThreshold == 10

\* Variant with an inclusive threshold.
Diverged_inclusive(spotPrice, futuresPrice) ==
  Abs(spotPrice - futuresPrice) >= DivergenceThreshold

\* arbitrage.ts 156
Diverged(spotPrice, futuresPrice) ==
  Abs(spotPrice - futuresPrice) > DivergenceThreshold

\* arbitrage.ts 157-158: |gap| * amount * (1 - feeRate * 2), micro-USDT
ProfitEstimate(spotPrice, futuresPrice, amount) ==
  Abs(spotPrice - futuresPrice) * amount * FeeDown

\* arbitrage.ts 160-168
ConvergenceOpportunity(spotEx, futuresEx, symbol, spotPrice, futuresPrice, profitEstimate) ==
  [type |-> "convergence",
   buyExchange |-> IF spotPrice < futuresPrice THEN spotEx.name ELSE futuresEx.name,
   sellExchange |-> IF spotPrice < futuresPrice THEN futuresEx.name ELSE spotEx.name,
   symbol |-> symbol,
   buyPrice |-> IF spotPrice <= futuresPrice THEN spotPrice ELSE futuresPrice,
   sellPrice |-> Max(spotPrice, futuresPrice),
   profit |-> profitEstimate]

\* arbitrage.ts 102-176: the body of the innermost loop; the sequence of
\* Opportunities it pushes.
EvaluateBoth(cfg, spotEx, futuresEx, symbol, dataSpot, dataFutures, book) ==
  IF dataSpot = <<>> \/ dataFutures = <<>> THEN <<>>
  ELSE IF VolumeSkipped(cfg, dataSpot[1], dataFutures[1]) THEN <<>>
  ELSE
    LET spotPrice == dataSpot[1].price
        futuresPrice == dataFutures[1].price
        amount == ScoreAmount_gross(cfg, spotPrice)
        profitNet == ProfitNet(spotPrice, futuresPrice, amount)
        profitEstimate == ProfitEstimate(spotPrice, futuresPrice, amount)
    IN IF book = <<>> THEN <<>>
       ELSE IF DepthSkipped(book, amount) THEN <<>>
       ELSE (IF Qualifies(cfg, spotPrice, futuresPrice, profitNet)
               THEN << NewOpportunity(spotEx, futuresEx, symbol, spotPrice,
                                      futuresPrice, profitNet) >>
               ELSE <<>>)
            \o
            (IF /\ Diverged(spotPrice, futuresPrice)
                /\ profitEstimate >= cfg.minProfit
                /\ profitEstimate <= cfg.maxProfit
               THEN << ConvergenceOpportunity(spotEx, futuresEx, symbol, spotPrice,
                                              futuresPrice, profitEstimate) >>
               ELSE <<>>)

\* The cache slots and books one pass can see.
BothSpotData ==
  { <<>> } \cup { << [price |-> p, volume |-> v] >> :
                    p \in { 0, 89, 90, 100, 110, 111, 125 }, v \in { 99, 100 } }
BothFuturesData ==
  { <<>> } \cup { << [price |-> p, volume |-> 100] >> : p \in { 100, 125 } }
BothBooks == { <<>>, << 0, 1000 >>, << 1000, 1000 >>, << 100000, 100000 >> }

BothInit ==
  /\ exchanges \in Selections
  /\ positions = <<>>
  /\ trades = <<>>
  /\ orders = {}
  /\ now = 0
  /\ auto = FALSE
  /\ calls = 1
  /\ cli = [pc |-> "poll", ops |-> <<>>]
  /\ ex = IdleEx
  /\ sup = <<>>
  /\ cmd = NoCmd
  /\ \E cfg \in PollConfigs, dataSpot \in BothSpotData,
        dataFutures \in BothFuturesData, book \in BothBooks :
       poll = [pc |-> "score", cfg |-> cfg, dataSpot |-> dataSpot,
               dataFutures |-> dataFutures, book |-> book, ops |-> <<>>]

\* One pass over the one (spot venue, futures venue, symbol) triple.
BothScore ==
  /\ poll.pc = "score"
  /\ poll' = [poll EXCEPT
                !.pc = "scored",
                !.ops = EvaluateBoth(poll.cfg, spotExchanges[1], futuresExchanges[1],
                                     Symbol, poll.dataSpot, poll.dataFutures, poll.book)]
  /\ UNCHANGED << cmd, exchanges, positions, trades, orders, now, auto, calls, cli, ex, sup >>

BothNext == BothScore

BothSpec == BothInit /\ [][BothNext]_vars

\* ================================================ repeated executions
\* A monitor run with --auto followed over two calls of monitorOpportunities
\* during the first minute: each call's checkPositions runs its find, and
\* the quote requests and 60 s timers of the chains are still pending.

\* Calls of monitorOpportunities followed in these runs.
MaxAutoCalls == 2

AutoInit ==
  /\ exchanges \in Selections
  /\ positions = <<>>
  /\ trades = <<>>
  /\ orders = {}
  /\ now = 0
  /\ auto = TRUE
  /\ calls = 0
  /\ cli = [pc |-> "call", ops |-> <<>>]
  /\ ex = IdleEx
  /\ sup = <<>>
  /\ poll = NoPoll
  /\ cmd = NoCmd

\* part_001 361-372: the next call of the command's while loop
AutoCall == MonitorCallUpTo(MaxAutoCalls)

AutoNext ==
  \/ AutoCall
  \/ MonitorReturn
  \/ CliSleep
  \/ ExecSavePosition
  \/ ExecBuy
  \/ ExecSaveBuyTrade
  \/ ExecSell
  \/ ExecSavePositionAgain
  \/ ExecSaveSellTrade
  \/ ExecReturn
  \/ \E c \in DOMAIN sup : SupFind(c)

AutoSpec == AutoInit /\ [][AutoNext]_vars

\* ================================================ scoring and execution
\* One scoring pass of a monitor run with --auto over a given cache and
\* configuration, and the executions of the Opportunities it returns.

SizingInit ==
  /\ exchanges \in PollSelections
  /\ positions = <<>>
  /\ trades = <<>>
  /\ orders = {}
  /\ now = 0
  /\ auto = TRUE
  /\ calls = 1
  /\ cli = [pc |-> "poll", ops |-> <<>>]
  /\ ex = IdleEx
  /\ sup = <<>>
  /\ cmd = NoCmd
  /\ \E cfg \in PollConfigs : \E cache \in ScorerCaches :
       poll = [pc |-> "score", cfg |-> cfg, run |-> 1, first |-> <<>>,
               prices |-> cache, idx |-> 1, ops |-> <<>>, log |-> <<>>]

\* worker.ts 152-154, part_001 362-373: monitorOpportunities returns the
\* Opportunities to the command's for loop
SizingReturn ==
  /\ poll.pc = "score"
  /\ poll.idx > TripleCount
  /\ poll.ops # <<>>
  /\ cli.pc = "poll"
  /\ poll' = [poll EXCEPT !.pc = "returned"]
  /\ cli' = [pc |-> "loop", ops |-> poll.ops]
  /\ UNCHANGED << cmd, exchanges, positions, trades, orders, now, auto, calls, ex, sup >>

SizingNext ==
  \/ PollScore
  \/ SizingReturn
  \/ ExecSavePosition
  \/ ExecBuy
  \/ ExecSaveBuyTrade
  \/ ExecSell
  \/ ExecSavePositionAgain
  \/ ExecSaveSellTrade
  \/ ExecReturn

SizingSpec == SizingInit /\ [][SizingNext]_vars

\* ================================================ a failing store write
\* The same runs when the Position save that follows the accepted futures
\* sell can reject (the connection to the store is lost, a constraint
\* fails).

\* worker.ts 250-252: the catch of the sell leg's try block, entered by a
\* rejection of positionRepository.save (249)
SettleStoreError(trade) ==
  [trade EXCEPT !.success = FALSE, !.error = "store error"]

\* worker.ts 249-253: positionRepository.save(position) rejects
ExecSavePositionThrows ==
  /\ ex.pc = "savePosition"
  /\ ex' = [ex EXCEPT !.pc = "saveSellTrade", !.trade = SettleStoreError(ex.trade)]
  /\ UNCHANGED << poll, cmd, exchanges, positions, trades, orders, now, auto, calls, cli, sup >>

StoreFailNext ==
  \/ AutoNext
  \/ ExecSavePositionThrows

StoreFailSpec == AutoInit /\ [][StoreFailNext]_vars

\* ================================================ the configured stop-loss
\* A monitor run with --auto and a given --stop-loss: one Opportunity is
\* executed and the Supervisor then compares a spot quote with the
\* Position's stop-loss threshold.

\* --stop-loss values followed, percent.
StopLossChoices == { 1, 5, 10 }

\* Spot prices of the Opportunity executed.
StopBuyPrices == { 100, 200 }

\* Spot quotes the Supervisor sees.
StopQuotes == { 89, 90, 92, 95, 96, 99, 180, 190, 198 }

StopInit ==
  /\ exchanges \in Selections
  /\ positions = <<>>
  /\ trades = <<>>
  /\ orders = {}
  /\ now = 0
  /\ auto = TRUE
  /\ calls = 1
  /\ \E p \in StopBuyPrices :
       cli = [pc |-> "loop",
              ops |-> << NewOpportunity(spotExchanges[1], futuresExchanges[1], Symbol,
                                        p, p + 25,
                                        ProfitNet(p, p + 25, ScoreAmount(MainConfig, p))) >>]
  /\ ex = IdleEx
  /\ sup = << [pc |-> "timer", cycle |-> 1, queue |-> <<>>] >>
  /\ \E percent \in StopLossChoices : poll = [pc |-> "returned", stopLossPercent |-> percent]
  /\ cmd = NoCmd

\* worker.ts 272-274, 306-312: a cycle loads the open Position, gets its
\* spot quote and evaluates the stop-loss price test
StopCheck ==
  /\ sup[1].pc = "timer"
  /\ openPositions # <<>>
  /\ \E spotPrice \in StopQuotes :
       LET pos == openPositions[1]
           threshold == StopLossThreshold(pos, poll.stopLossPercent)
       IN sup' = << [pc |-> "checked", cycle |-> 2, queue |-> <<>>, pos |-> pos,
                     spotPrice |-> spotPrice, threshold |-> threshold,
                     stopLoss |-> spotPrice <= threshold] >>
  /\ UNCHANGED << poll, cmd, exchanges, positions, trades, orders, now, auto, calls, cli, ex >>

StopNext ==
  \/ ExecSavePosition
  \/ ExecBuy
  \/ ExecSaveBuyTrade
  \/ ExecSell
  \/ ExecSavePositionAgain
  \/ ExecSaveSellTrade
  \/ ExecReturn
  \/ StopCheck

StopSpec == StopInit /\ [][StopNext]_vars

\* ------------------------------------------------------ Supervisor claims

\* The stored Position's venue is not a selected spot venue, or no
\* derivatives venue is selected.
NotManaged(id) ==
  \/ ~\E i \in 1..Len(exchanges) :
        exchanges[i].name = positions[id].exchange /\ exchanges[i].type = "spot"
  \/ ~\E i \in 1..Len(exchanges) : exchanges[i].type = "futures"

\* Chain c takes a loaded Position and requests its spot quote.
StartsHandling(c) ==
  /\ c \in DOMAIN sup'
  /\ sup'[c].pc = "spotTicker"
  /\ sup'[c] # sup[c]

\* C31: the Supervisor skips a Position whose venue is not a selected spot
\* venue, or that is already closed, or when no derivatives venue is
\* selected: no quote is requested for it, no order placed, no Trade
\* recorded and its row is not modified.
C31_State ==
  \A id \in DOMAIN positions : NotManaged(id) =>
    /\ \A c \in DOMAIN sup : "pos" \in DOMAIN sup[c] => sup[c].pos.id # id
    /\ \A o \in orders : ~(o.by.k = "sup" /\ o.by.p = id)
    /\ \A i \in DOMAIN trades : ~(trades[i].by.k = "sup" /\ trades[i].by.p = id)
C31_Step ==
  /\ \A id \in DOMAIN positions : NotManaged(id) => positions'[id] = positions[id]
  /\ \A c \in DOMAIN sup :
       StartsHandling(c) => ~positions[sup'[c].pos.id].closed
C31_SkippedUntouched == [](C31_State) /\ [][C31_Step]_vars

\* ----------------------------------------------- convergence Opportunities

Opening(id) ==
  /\ ex.pc \in { "buy", "saveBuyTrade", "sell", "savePosition", "saveSellTrade" }
  /\ ex.position.id = id

\* C33: the Supervisor never starts unwinding a Position while the
\* executeOpportunity invocation that created it has not returned: no
\* Supervisor order exists for, and no Supervisor save has closed, a
\* Position whose opening legs are still being executed.
C33_NoUnwindWhileOpening ==
  \A id \in DOMAIN positions : Opening(id) =>
    /\ \A o \in orders : ~(o.by.k = "sup" /\ o.by.p = id)
    /\ ~positions[id].closed

\* The open Positions of one (symbol, spot venue).
OpenOn(symbol, venue) ==
  { id \in DOMAIN positions : /\ ~positions[id].closed
                              /\ positions[id].symbol = symbol
                              /\ positions[id].exchange = venue }

\* C34: with auto set, at most one Position per (symbol, spot venue) is
\* open at any time, over any number of calls.
C34_OneOpenPerVenue ==
  \A id \in DOMAIN positions :
    Cardinality(OpenOn(positions[id].symbol, positions[id].exchange)) <= 1

\* The quantity the Scorer computed for the Opportunity that Position id
\* was opened for (the amounts logged by the pass for its triple).
ScoredAmounts(id) ==
  { poll.log[i].amount : i \in { j \in DOMAIN poll.log :
      /\ poll.log[j].outcome = "pushed"
      /\ TripleAt(poll.log[j].idx).spotEx.name = positions[id].exchange
      /\ Symbols[TripleAt(poll.log[j].idx).k] = positions[id].symbol } }

\* C35: the base quantity executeOpportunity stores as Position.amount and
\* orders equals the quantity the Scorer used for the Opportunity's profit
\* and depth check.
C35_SameQuantity ==
  poll.pc = "returned" =>
    \A id \in DOMAIN positions :
      /\ ScoredAmounts(id) = { positions[id].amount }
      /\ \A o \in orders :
           (o.by = ByExec(positions[id].inv) /\ o.unit = "base") =>
             ScoredAmounts(id) = { o.amount }

\* C36: every recorded Trade's success flag equals the outcome of its
\* order: success is true exactly when the venue accepted the order placed
\* for that leg, also when a later store write failed.
C36_SuccessIsOrderOutcome ==
  \A i \in DOMAIN trades :
    trades[i].success <=>
      \E o \in orders : o.by = trades[i].by /\ o.side = trades[i].type /\ o.ok

\* C37: the stop-loss threshold the Supervisor applies to a Position that
\* executeOpportunity created is buyPrice * (1 - stopLossPercent / 100) for
\* the configured stopLossPercent, whatever its value.
C37_ConfiguredStopLoss ==
  \A c \in DOMAIN sup : sup[c].pc = "checked" =>
    /\ sup[c].threshold = (sup[c].pos.buyPrice * (100 - poll.stopLossPercent)) \div 100
    /\ sup[c].stopLoss <=>
         sup[c].spotPrice <= (sup[c].pos.buyPrice * (100 - poll.stopLossPercent)) \div 100

\* ---------------------------------------------------- Supervisor claims, II

\* C38: the base quantity of the Supervisor's spot-side unwind sell never
\* exceeds the Position's amount, on every venue and for every spot price,
\* also when the minimum order notional applies.
C38_SellWithinAmount ==
  \A o \in orders :
    (o.by.k = "sup" /\ o.side = "sell") => o.amount <= positions[o.by.p].amount

\* Chain c's step leaves no loaded Position behind: each Position still
\* waiting in the cycle's loop keeps waiting, is the one now evaluated, or
\* is one the evaluation returns from at once.
KeepsLoaded(c) ==
  \A k \in DOMAIN sup[c].queue :
    LET q == sup[c].queue[k]
    IN \/ q \in Range(sup'[c].queue)
       \/ ("pos" \in DOMAIN sup'[c] /\ sup'[c].pos = q)
       \/ Skipped(q)

\* C39: within one cycle a failed re-quote of one open Position (the spot
\* or the derivatives quote call rejects) does not keep the remaining
\* Positions loaded in that cycle from being evaluated.
C39_FailureIsLocal == [][\A c \in DOMAIN sup : KeepsLoaded(c)]_vars
====
